---- MODULE Spec2Model ----
(***************************************************************************)
(* Wave-function-collapse tile engine: the WfcStepper (collapse, propagate, *)
(* restart) and the worker that drives it for the host (init / run / pause  *)
(* / step messages, chunked run loop).                                      *)
(*                                                                          *)
(* 32-bit words are kept exact.  A domain word is the set of its set bit    *)
(* positions; a PRNG word is a pair <<hi, lo>> of 16-bit halves.            *)
(***************************************************************************)
EXTENDS Integers, Sequences, FiniteSets, TLC

(***************************************************************************)
(* Bounds of the model.                                                     *)
(***************************************************************************)
MaxSeed == 3
MaxBudget == 2
MaxGen == 4
MaxW == 2
MaxH == 2
MaxRestartsCfg == 1
MaxCalls == 5
MaxTraced == 3
MaxMacroW == 4
MaxMacroCalls == 2

(***************************************************************************)
(* 32-bit arithmetic on <<hi, lo>> pairs of 16-bit halves.                  *)
(***************************************************************************)
Half == 65536
Byte == 256

U32(n) == <<n \div Half, n % Half>>

RECURSIVE Xor16(_, _, _)
Xor16(a, b, k) ==
  IF k = 0 THEN 0
  ELSE ((a + b) % 2) + 2 * Xor16(a \div 2, b \div 2, k - 1)

RECURSIVE Or16(_, _, _)
Or16(a, b, k) ==
  IF k = 0 THEN 0
  ELSE (IF (a % 2) + (b % 2) > 0 THEN 1 ELSE 0) + 2 * Or16(a \div 2, b \div 2, k - 1)

Xor32(a, b) == <<Xor16(a[1], b[1], 16), Xor16(a[2], b[2], 16)>>
Or32(a, b) == <<Or16(a[1], b[1], 16), Or16(a[2], b[2], 16)>>

Add32(a, b) ==
  LET lo == a[2] + b[2]
  IN  <<(a[1] + b[1] + lo \div Half) % Half, lo % Half>>

RECURSIVE Pow2(_)
Pow2(n) == IF n = 0 THEN 1 ELSE 2 * Pow2(n - 1)

\* a >>> n for 0 < n < 16
Shr32(a, n) ==
  <<a[1] \div Pow2(n), (a[2] \div Pow2(n)) + (a[1] % Pow2(n)) * Pow2(16 - n)>>

\* Math.imul: the low 32 bits of the product, computed bytewise
Imul32(a, b) ==
  LET A == <<a[2] % Byte, a[2] \div Byte, a[1] % Byte, a[1] \div Byte>>
      B == <<b[2] % Byte, b[2] \div Byte, b[1] % Byte, b[1] \div Byte>>
      c0 == A[1] * B[1]
      c1 == A[1] * B[2] + A[2] * B[1] + c0 \div Byte
      c2 == A[1] * B[3] + A[2] * B[2] + A[3] * B[1] + c1 \div Byte
      c3 == A[1] * B[4] + A[2] * B[3] + A[3] * B[2] + A[4] * B[1] + c2 \div Byte
  IN  <<(c3 % Byte) * Byte + (c2 % Byte), (c1 % Byte) * Byte + (c0 % Byte)>>

(***************************************************************************)
(* mulberry32 as written in the stepper.  The closure variable t is the     *)
(* PRNG state; only t mod 2^32 is ever read.                                *)
(***************************************************************************)
RngIncrement == <<27947, 31221>>    \* 0x6d2b79f5

RngAdvance(t) == Add32(t, RngIncrement)

\* the 32-bit integer behind one draw, from the state after the increment
RngOutput(t) ==
  LET x1 == Imul32(Xor32(t, Shr32(t, 15)), Or32(U32(1), t))
      x2 == Xor32(x1, Add32(x1, Imul32(Xor32(x1, Shr32(t, 7)), Or32(U32(61), x1))))
  IN  Xor32(x2, Shr32(t, 14))

\* (rng() * n) | 0 for a small positive n: floor(u * n / 2^32)
RngScale(u, n) == (u[1] * n + (u[2] * n) \div Half) \div Half

(***************************************************************************)
(* Catalogs.  A tile has a weight and four rule lists, indexed by           *)
(* direction + 1 (N=0, E=1, S=2, W=3); a rule is a key with a weight.       *)
(***************************************************************************)
DIRS == {0, 1, 2, 3}
OPP == [d \in DIRS |-> (d + 2) % 4]

Rule(k) == [key |-> k, weight |-> 1]
Tile(wt, n, e, s, w) == [weight |-> wt, edges |-> <<n, e, s, w>>]
Uniform(k) == Tile(1, <<Rule(k)>>, <<Rule(k)>>, <<Rule(k)>>, <<Rule(k)>>)

\* one variant, compatible with itself on every side
CatSelf == <<Uniform("x")>>
\* one variant that cannot sit next to itself
CatLone == <<Tile(1, <<Rule("x")>>, <<>>, <<>>, <<>>)>>
\* A: N/S x, E/W y; B: N/S y, E/W x.  Each variant matches itself only.
CatChecker ==
  << Tile(1, <<Rule("x")>>, <<Rule("y")>>, <<Rule("x")>>, <<Rule("y")>>),
     Tile(1, <<Rule("y")>>, <<Rule("x")>>, <<Rule("y")>>, <<Rule("x")>>) >>
\* A has only a north key, B only a south key
CatNorthSouth ==
  << Tile(1, <<Rule("x")>>, <<>>, <<>>, <<>>),
     Tile(1, <<>>, <<>>, <<Rule("x")>>, <<>>) >>
\* no two sides share a key: every compat row is empty
CatDisjoint ==
  << Tile(1, <<Rule("a")>>, <<Rule("b")>>, <<Rule("c")>>, <<Rule("d")>>),
     Tile(1, <<Rule("e")>>, <<Rule("f")>>, <<Rule("g")>>, <<Rule("h")>>) >>
\* B accepts nothing on its east and south sides: a dead end the seed may pick
CatDeadEnd ==
  << Uniform("k"),
     Tile(1, <<Rule("k")>>, <<>>, <<>>, <<Rule("k")>>) >>
\* three variants in a chain: A-B and B-C match, A-C do not; C is heavy
CatChain ==
  << Uniform("p"),
     Tile(1, <<Rule("p"), Rule("q")>>, <<Rule("p"), Rule("q")>>,
             <<Rule("p"), Rule("q")>>, <<Rule("p"), Rule("q")>>),
     Tile(2, <<Rule("q")>>, <<Rule("q")>>, <<Rule("q")>>, <<>>) >>
\* A takes A or B on its north and C on its west, C takes A on its north, and
\* A takes B on its east: a cell can shrink twice while it waits in the queue
CatDetour ==
  << Tile(1, <<Rule("v1")>>, <<Rule("h1")>>, <<Rule("v1"), Rule("v3")>>,
             <<Rule("h2")>>),
     Tile(1, <<>>, <<>>, <<Rule("v1")>>, <<Rule("h1")>>),
     Tile(1, <<Rule("v3")>>, <<Rule("h2")>>, <<>>, <<>>) >>

\* three variants of weight 0 that match one another on every side
CatZero ==
  << Tile(0, <<Rule("z")>>, <<Rule("z")>>, <<Rule("z")>>, <<Rule("z")>>),
     Tile(0, <<Rule("z")>>, <<Rule("z")>>, <<Rule("z")>>, <<Rule("z")>>),
     Tile(0, <<Rule("z")>>, <<Rule("z")>>, <<Rule("z")>>, <<Rule("z")>>) >>
\* the same with weights 0, 1 and 2
CatMixed ==
  << Tile(0, <<Rule("z")>>, <<Rule("z")>>, <<Rule("z")>>, <<Rule("z")>>),
     Tile(1, <<Rule("z")>>, <<Rule("z")>>, <<Rule("z")>>, <<Rule("z")>>),
     Tile(2, <<Rule("z")>>, <<Rule("z")>>, <<Rule("z")>>, <<Rule("z")>>) >>

Catalogs ==
  {CatSelf, CatLone, CatChecker, CatNorthSouth, CatDisjoint, CatDeadEnd, CatChain,
   CatDetour}

(***************************************************************************)
(* Bitset helpers.  A cell's domain is the set of bit positions that are 1  *)
(* in its `words` 32-bit words.                                             *)
(***************************************************************************)
WordBits == 32

neighborIndex(x, y, w, h, d) ==
  IF d = 0 THEN (IF y > 0 THEN (y - 1) * w + x ELSE -1)
  ELSE IF d = 1 THEN (IF x + 1 < w THEN y * w + (x + 1) ELSE -1)
  ELSE IF d = 2 THEN (IF y + 1 < h THEN (y + 1) * w + x ELSE -1)
  ELSE (IF x > 0 THEN y * w + (x - 1) ELSE -1)

wordCount(tileCount) == (tileCount + 31) \div WordBits

\* every bit of every word of one cell
setAll(words) == 0 .. (words * WordBits - 1)

\* a mask that leaves the last word as it is
maskNothing(dom, words, tileCount) == dom

\* last word &= 0xffffffff >>> extra, for one cell
maskUnusedHighBits(dom, words, tileCount) ==
  LET extra == words * WordBits - tileCount
  IN  IF extra <= 0 THEN dom
      ELSE {b \in dom :
              b < (words - 1) * WordBits
              \/ b - (words - 1) * WordBits < WordBits - extra}

countDomain(dom) == Cardinality(dom)

domainIsEmpty(dom) == dom = {}

\* a restriction that sets the bit next to the chosen one
restrictToTileOffByOne(tileIdx) == {tileIdx + 1}

restrictToTile(tileIdx) == {tileIdx}

Lowest(S) == CHOOSE b \in S : \A c \in S : b <= c

getSingleIndex(dom) == IF dom = {} THEN -1 ELSE Lowest(dom)

domainAndInPlaceDelta(dom, mask) ==
  LET next == dom \cap mask
  IN  [changed |-> next # dom,
       removed |-> Cardinality(dom) - Cardinality(next),
       beforeCount |-> Cardinality(dom),
       afterCount |-> Cardinality(next),
       next |-> next]

(***************************************************************************)
(* Rule maps and the compatibility table.                                   *)
(***************************************************************************)
RECURSIVE MaxWeight(_, _, _)
MaxWeight(rules, k, i) ==
  IF i > Len(rules) THEN 0
  ELSE LET rest == MaxWeight(rules, k, i + 1)
       IN  IF rules[i].key = k /\ rules[i].weight > rest
           THEN rules[i].weight ELSE rest

\* key -> largest weight seen for the key
buildRuleMap(rules) ==
  [k \in {rules[i].key : i \in DOMAIN rules} |-> MaxWeight(rules, k, 1)]

\* a test that asks for every key of a on b's side
canMatchMapsOneWay(a, b) ==
  IF DOMAIN a = {} \/ DOMAIN b = {} THEN FALSE
  ELSE \A k \in DOMAIN a : k \in DOMAIN b

\* the test inverted
canMatchMapsInverted(a, b) ==
  IF DOMAIN a = {} \/ DOMAIN b = {} THEN FALSE
  ELSE ~(\E k \in DOMAIN a : k \in DOMAIN b)

canMatchMaps(a, b) ==
  IF DOMAIN a = {} \/ DOMAIN b = {} THEN FALSE
  ELSE \E k \in DOMAIN a : k \in DOMAIN b

RECURSIVE matchScoreFrom(_, _, _)
matchScoreFrom(aRules, bMap, i) ==
  IF i > Len(aRules) THEN 0
  ELSE (IF aRules[i].key \in DOMAIN bMap
        THEN aRules[i].weight * bMap[aRules[i].key] ELSE 0)
       + matchScoreFrom(aRules, bMap, i + 1)

matchScoreMapArray(aRules, bMap) ==
  IF Len(aRules) = 0 \/ DOMAIN bMap = {} THEN 0
  ELSE matchScoreFrom(aRules, bMap, 1)

\* edgeMaps[t][d], tiles indexed from 0 as in the source
edgeMapOf(ts, t, d) == buildRuleMap(ts[t + 1].edges[d + 1])

\* a table that looks at the same side of both variants
buildCompatSameSide(ts) ==
  [d \in DIRS |->
    [a \in 0 .. (Len(ts) - 1) |->
      {b \in 0 .. (Len(ts) - 1) :
         canMatchMaps(edgeMapOf(ts, a, d), edgeMapOf(ts, b, d))}]]

\* compat[d][a] as a bitset over variant indices
buildCompat(ts) ==
  [d \in DIRS |->
    [a \in 0 .. (Len(ts) - 1) |->
      {b \in 0 .. (Len(ts) - 1) :
         canMatchMaps(edgeMapOf(ts, a, d), edgeMapOf(ts, b, OPP[d]))}]]

(***************************************************************************)
(* State.  tiles, gridW, gridH, maxRestarts and seed are the configuration  *)
(* the stepper is built from; the next block is the WfcStepper's fields;    *)
(* pc, budget, iter and events are the position of a running step call and  *)
(* its event list; the last block is the worker's module state.  hist and   *)
(* wlog record what has happened; no action reads them, except that         *)
(* hist.calls and hist.budgets bound the number of direct step calls.       *)
(***************************************************************************)
VARIABLES tiles, gridW, gridH, maxRestarts, seed, opts,
          domain, queue, inQueue, domVer, propVer, collapsed, attempt, rng,
          pc, budget, iter, events,
          built, running, runGen, loops, wpc, curGen, posted,
          hist, wlog,
          fetched, loaded

\* what the page holds before a stepper exists: the answer to the request for
\* /tileset.json and what the loader made of it
loaderVars == <<fetched, loaded>>
cfgVars == <<tiles, gridW, gridH, maxRestarts, seed, opts, loaderVars>>
fieldVars == <<domain, queue, inQueue, domVer, propVer, collapsed, attempt, rng>>
callVars == <<pc, budget, iter, events>>
stepperVars == <<fieldVars, callVars, hist>>
workerVars == <<built, running, runGen, loops, wpc, curGen, posted, wlog>>
vars == <<cfgVars, stepperVars, workerVars>>

cells == gridW * gridH
words == wordCount(Len(tiles))
Cells == 0 .. (cells - 1)
compat == buildCompat(tiles)

CellX(cell) == cell % gridW
CellY(cell) == cell \div gridW
Neighbor(cell, d) == neighborIndex(CellX(cell), CellY(cell), gridW, gridH, d)

(***************************************************************************)
(* The stepper's arrays as a record, the constructor's fresh arrays, and    *)
(* resetDomain.                                                             *)
(***************************************************************************)
\* new Uint32Array / Uint8Array: zero-filled
FreshFields ==
  [domain |-> [c \in Cells |-> {}],
   queue |-> <<>>,
   inQueue |-> [c \in Cells |-> 0],
   domVer |-> [c \in Cells |-> 0],
   propVer |-> [c \in Cells |-> 0],
   collapsed |-> 0,
   out |-> "ok"]

\* a reset that forgets the two version arrays
resetDomainKeepsVersions(s) ==
  [s EXCEPT !.domain = [c \in Cells |->
                          maskUnusedHighBits(setAll(words), words, Len(tiles))],
            !.queue = <<>>,
            !.inQueue = [c \in Cells |-> 0],
            !.collapsed = 0]

resetDomain(s) ==
  [s EXCEPT !.domain = [c \in Cells |->
                          maskUnusedHighBits(setAll(words), words, Len(tiles))],
            !.queue = <<>>,
            !.inQueue = [c \in Cells |-> 0],
            !.domVer = [c \in Cells |-> 0],
            !.propVer = [c \in Cells |-> 0],
            !.collapsed = 0]

\* the fields a drain works on, as a record
Fields ==
  [domain |-> domain, queue |-> queue, inQueue |-> inQueue,
   domVer |-> domVer, propVer |-> propVer, collapsed |-> collapsed,
   out |-> "ok"]

\* an enqueue that drops the cell
enqueueNever(s, cell) == s

\* an enqueue that does not look at inQueue
enqueueUnchecked(s, cell) ==
  [s EXCEPT !.inQueue[cell] = 1, !.queue = Append(@, cell)]

enqueue(s, cell) ==
  IF s.inQueue[cell] # 0 THEN s
  ELSE [s EXCEPT !.inQueue[cell] = 1, !.queue = Append(@, cell)]

\* a version bump that leaves the version as it is
bumpVerNever(s, cell) == s

\* a version bump by two
bumpVerTwice(s, cell) == [s EXCEPT !.domVer[cell] = @ + 2]

\* domVer[cell] = (domVer[cell] + 1) >>> 0; the wrap at 2^32 is out of reach
bumpVer(s, cell) == [s EXCEPT !.domVer[cell] = @ + 1]

(***************************************************************************)
(* findMinEntropyCell: scan from the drawn start, keep the first cell with  *)
(* the smallest count above 1, stop at a count of 2.                        *)
(***************************************************************************)
NoBest == 1000000    \* stands for Infinity

RECURSIVE ScanMin(_, _, _, _, _, _)
ScanMin(dom, n, start, i, bestCount, bestCell) ==
  IF i >= n THEN bestCell
  ELSE LET cell == (start + i) % n
           c == countDomain(dom[cell])
       IN  IF c <= 1 THEN ScanMin(dom, n, start, i + 1, bestCount, bestCell)
           ELSE IF c < bestCount
                THEN (IF c = 2 THEN cell
                      ELSE ScanMin(dom, n, start, i + 1, c, cell))
                ELSE ScanMin(dom, n, start, i + 1, bestCount, bestCell)

\* a selection that takes the start cell whatever its count
findMinEntropyCellStart(dom, n, u) == RngScale(u, n)

\* a scan that always starts at cell 0
findMinEntropyCellFromZero(dom, n, u) == ScanMin(dom, n, 0, 0, NoBest, -1)

findMinEntropyCell(dom, n, u) == ScanMin(dom, n, RngScale(u, n), 0, NoBest, -1)

(***************************************************************************)
(* pickTileWithNeighborBias.                                                *)
(***************************************************************************)
\* the collapsed neighbours of a cell: direction -> their single variant
CollapsedNeighbors(dom, cell) ==
  {d \in DIRS : Neighbor(cell, d) >= 0 /\ countDomain(dom[Neighbor(cell, d)]) = 1}

RECURSIVE BiasProduct(_, _, _, _)
BiasProduct(dom, cell, idx, d) ==
  IF d > 3 THEN 1
  ELSE (IF d \in CollapsedNeighbors(dom, cell)
        THEN 1 + matchScoreMapArray(
                   tiles[idx + 1].edges[d + 1],
                   edgeMapOf(tiles, getSingleIndex(dom[Neighbor(cell, d)]), OPP[d]))
        ELSE 1)
       * BiasProduct(dom, cell, idx, d + 1)

\* the score of a candidate; 0 stands for "skipped" (weight not positive)
Score(dom, cell, idx) ==
  IF tiles[idx + 1].weight > 0
  THEN tiles[idx + 1].weight * BiasProduct(dom, cell, idx, 0)
  ELSE 0

RECURSIVE TotalScore(_, _, _)
TotalScore(dom, cell, idx) ==
  IF idx >= words * WordBits THEN 0
  ELSE (IF idx \in dom[cell] THEN Score(dom, cell, idx) ELSE 0)
       + TotalScore(dom, cell, idx + 1)

\* r = rng() * total has dropped to r <= 0 once cum >= u * total / 2^32
Reached(cum, u, total) ==
  LET q == u[1] * total + (u[2] * total) \div Half
      rem == (u[2] * total) % Half
  IN  cum * Half >= q + (IF rem > 0 THEN 1 ELSE 0)

RECURSIVE WeightedScan(_, _, _, _, _, _)
WeightedScan(dom, cell, idx, cum, u, total) ==
  IF idx >= words * WordBits
  THEN (IF getSingleIndex(dom[cell]) >= 0 THEN getSingleIndex(dom[cell]) ELSE 0)
  ELSE IF idx \in dom[cell] /\ tiles[idx + 1].weight > 0
       THEN (IF Reached(cum + Score(dom, cell, idx), u, total) THEN idx
             ELSE WeightedScan(dom, cell, idx + 1,
                               cum + Score(dom, cell, idx), u, total))
       ELSE WeightedScan(dom, cell, idx + 1, cum, u, total)

\* the k-th (from 0) set bit in ascending order
RECURSIVE NthOption(_, _)
NthOption(S, k) == IF k = 0 THEN Lowest(S) ELSE NthOption(S \ {Lowest(S)}, k - 1)

\* a pick that ignores the scores
pickUniformAlways(dom, cell, u) ==
  NthOption(dom[cell], RngScale(u, Cardinality(dom[cell])))

pickTileWithNeighborBias(dom, cell, u) ==
  LET total == TotalScore(dom, cell, 0)
  IN  IF ~(total > 0)
      THEN NthOption(dom[cell], RngScale(u, Cardinality(dom[cell])))
      ELSE WeightedScan(dom, cell, 0, 0, u, total)

(***************************************************************************)
(* One pop of the drain loop: the four allowed masks of the popped cell and *)
(* the walk over its neighbours.                                            *)
(***************************************************************************)
\* allowed[d] = OR over the surviving tiles t of compat[d][t]
\* masks that allow every variant on every side
buildAllowed4Everything(dom, cell) == [d \in DIRS |-> 0 .. (Len(tiles) - 1)]

buildAllowed4FromCell(dom, cell) ==
  [d \in DIRS |-> UNION {compat[d][t] : t \in dom[cell]}]

\* directions d..3 of the neighbour loop; .out tells how the loop ended
RECURSIVE PropagateDirs(_, _, _, _)
PropagateDirs(s, cell, allowed, d) ==
  IF d > 3 THEN s
  ELSE LET nb == Neighbor(cell, d)
       IN  IF nb < 0 THEN PropagateDirs(s, cell, allowed, d + 1)
           ELSE LET delta == domainAndInPlaceDelta(s.domain[nb], allowed[d])
                    s1 == bumpVer([s EXCEPT !.domain[nb] = delta.next], nb)
                IN  IF ~delta.changed THEN PropagateDirs(s, cell, allowed, d + 1)
                    ELSE IF domainIsEmpty(s1.domain[nb])
                         THEN [s1 EXCEPT !.out = "contradiction"]
                         ELSE PropagateDirs(enqueue(s1, nb), cell, allowed, d + 1)

\* queue.pop() and everything up to the next test of the while condition
PopOnce(s) ==
  LET cell == s.queue[Len(s.queue)]
      s0 == [s EXCEPT !.queue = SubSeq(@, 1, Len(@) - 1), !.inQueue[cell] = 0]
  IN  IF s0.propVer[cell] = s0.domVer[cell] THEN s0
      ELSE LET s1 == [s0 EXCEPT !.propVer[cell] = s0.domVer[cell]]
           IN  PropagateDirs(s1, cell, buildAllowed4FromCell(s1.domain, cell), 0)

(***************************************************************************)
(* WfcStepper.step(maxCollapses), one action per block of the method.  The  *)
(* diag event carries timing figures only and is kept as a bare tag.        *)
(***************************************************************************)
DiagEvent == [type |-> "diag"]
DoneEvent == [type |-> "done"]
CollapseEvent(cell, tile) == [type |-> "collapse", cell |-> cell, tile |-> tile]
RestartEvent(k) == [type |-> "restart", attempt |-> k]
ErrorEvent(m) ==
  [type |-> "error",
   message |-> "WFC failed after " \o ToString(m) \o " restarts."]

SetFields(s) ==
  /\ domain' = s.domain
  /\ queue' = s.queue
  /\ inQueue' = s.inQueue
  /\ domVer' = s.domVer
  /\ propVer' = s.propVer
  /\ collapsed' = s.collapsed

\* entry of step: events = [], then the first drain
EnterStep(n) ==
  /\ pc = "idle"
  /\ pc' = "drain"
  /\ budget' = n
  /\ iter' = 0
  /\ events' = <<>>
  /\ UNCHANGED fieldVars

\* while (this.queue.length > 0): the drain goes on until this holds
queueDrainedEarly(q) == Len(q) <= 1

queueDrained(q) == Len(q) = 0

\* what a restart does to the PRNG state t of a stepper seeded with sd
rngReseeded(t, sd) == U32(sd)

rngAfterRestart(t, sd) == t

\* the restart cap, tested after attempt++
capExceededOffByOne(att, cap) == att >= cap

capExceeded(att, cap) == att > cap

\* one iteration of the while loop of drain(), contradiction branch included
DrainPop ==
  /\ pc = "drain"
  /\ ~queueDrained(queue)
  /\ LET s == PopOnce(Fields)
     IN  IF s.out = "contradiction"
         THEN /\ attempt' = attempt + 1
              /\ IF capExceeded(attempt + 1, maxRestarts)
                 THEN /\ SetFields(s)
                      /\ rng' = rng
                      /\ events' = events \o <<ErrorEvent(maxRestarts), DiagEvent>>
                      /\ hist' = [hist EXCEPT !.contradictions = @ + 1,
                                              !.errors = @ + 1]
                 ELSE /\ SetFields(resetDomain(s))
                      /\ rng' = rngAfterRestart(rng, seed)
                      /\ events' = events \o <<RestartEvent(attempt + 1), DiagEvent>>
                      /\ hist' = [hist EXCEPT !.contradictions = @ + 1,
                                              !.restarts = @ + 1]
              /\ pc' = "idle"
              /\ UNCHANGED <<budget, iter>>
         ELSE /\ SetFields(s)
              /\ UNCHANGED <<attempt, rng, pc, budget, iter, events, hist>>
  /\ UNCHANGED <<cfgVars, workerVars>>

\* a loop test that lets one more iteration through
budgetLeftOffByOne(i, n) == i <= n

\* for (let i = 0; i < maxCollapses; i++): the test of the loop
budgetLeft(i, n) == i < n

\* one iteration of the for loop, up to the drain that follows the collapse
CollapseNext ==
  /\ pc = "drain"
  /\ queueDrained(queue)
  /\ budgetLeft(iter, budget)
  /\ LET t1 == RngAdvance(rng)
         cell == findMinEntropyCell(domain, cells, RngOutput(t1))
         t2 == RngAdvance(t1)
     IN  IF cell = -1
         THEN /\ events' = events \o <<DoneEvent, DiagEvent>>
              /\ rng' = t1
              /\ pc' = "idle"
              /\ hist' = [hist EXCEPT !.done = TRUE]
              /\ UNCHANGED <<domain, queue, inQueue, domVer, propVer, collapsed,
                             attempt, budget, iter>>
         ELSE LET chosen == pickTileWithNeighborBias(domain, cell, RngOutput(t2))
                  s1 == bumpVer([Fields EXCEPT !.domain[cell] = restrictToTile(chosen)],
                                cell)
                  s2 == enqueue([s1 EXCEPT !.collapsed = @ + 1], cell)
              IN  /\ SetFields(s2)
                  /\ rng' = t2
                  /\ events' = Append(events, CollapseEvent(cell, chosen))
                  /\ iter' = iter + 1
                  /\ UNCHANGED <<attempt, pc, budget, hist>>
  /\ UNCHANGED <<cfgVars, workerVars>>

\* the budget is spent: push the closing diag and return
StepReturn ==
  /\ pc = "drain"
  /\ queueDrained(queue)
  /\ ~budgetLeft(iter, budget)
  /\ events' = Append(events, DiagEvent)
  /\ pc' = "idle"
  /\ UNCHANGED <<fieldVars, budget, iter, hist, cfgVars, workerVars>>

StepperRun == DrainPop \/ CollapseNext \/ StepReturn

(***************************************************************************)
(* The stepper on its own: built from a configuration, then driven by an    *)
(* arbitrary sequence of step(n) calls.                                     *)
(***************************************************************************)
Configs ==
  [tiles : Catalogs, gridW : 1 .. MaxW, gridH : 1 .. MaxH,
   maxRestarts : 0 .. MaxRestartsCfg, seed : 0 .. MaxSeed]

NoHistory ==
  [contradictions |-> 0, restarts |-> 0, errors |-> 0, done |-> FALSE, calls |-> 0,
   budgets |-> <<>>]
\* no options beyond seed and maxRestarts
NoOptions == [allowRotate |-> FALSE]
\* no request made, nothing loaded
NoResponse == [present |-> FALSE, parses |-> FALSE]
NotLoaded == [by |-> "nobody"]
NoLog == [sessErr |-> FALSE, sessDone |-> FALSE, pause |-> "none", cancelled |-> {}]

\* a constructor that seeds the PRNG from something else than the seed
InitRngUnseeded(sd) == rng \in {U32(sd), U32(sd + 1)}

\* this.rng = mulberry32(seed)
InitRng(sd) == rng = U32(sd)

StepperStart(cfgs) ==
  /\ \E c \in cfgs :
       /\ tiles = c.tiles
       /\ gridW = c.gridW
       /\ gridH = c.gridH
       /\ maxRestarts = c.maxRestarts
       /\ seed = c.seed
  /\ opts = NoOptions
  /\ fetched = NoResponse
  /\ loaded = NotLoaded
  \* new WfcStepper(tiles, gridW, gridH, {seed, maxRestarts})
  /\ domain = resetDomain(FreshFields).domain
  /\ queue = resetDomain(FreshFields).queue
  /\ inQueue = resetDomain(FreshFields).inQueue
  /\ domVer = resetDomain(FreshFields).domVer
  /\ propVer = resetDomain(FreshFields).propVer
  /\ collapsed = resetDomain(FreshFields).collapsed
  /\ attempt = 0
  /\ InitRng(seed)
  /\ pc = "idle"
  /\ budget = 0
  /\ iter = 0
  /\ events = <<>>
  /\ hist = NoHistory
  \* no worker around the stepper
  /\ built = TRUE
  /\ running = FALSE
  /\ runGen = 0
  /\ loops = {}
  /\ wpc = "idle"
  /\ curGen = 0
  /\ posted = <<>>
  /\ wlog = NoLog

Init == StepperStart(Configs)

\* the host calls step(n) on the idle stepper
StepCall(n) ==
  /\ hist.calls < MaxCalls
  /\ EnterStep(n)
  /\ hist' = [hist EXCEPT !.calls = @ + 1]
  /\ UNCHANGED <<cfgVars, workerVars>>

Next ==
  \/ \E n \in 1 .. MaxBudget : StepCall(n)
  \/ StepperRun

Spec == Init /\ [][Next]_vars

(***************************************************************************)
(* The same stepper in short sessions on 2x2 grids, with the budgets of the *)
(* calls recorded in hist.budgets.                                          *)
(***************************************************************************)
TraceConfigs ==
  {c \in Configs :
     /\ c.tiles \in {CatChecker, CatDeadEnd, CatChain, CatDetour}
     /\ c.gridW = 2
     /\ c.gridH = 2}

TraceInit == StepperStart(TraceConfigs)

TracedCall(n) ==
  /\ Len(hist.budgets) < MaxTraced
  /\ EnterStep(n)
  /\ hist' = [hist EXCEPT !.calls = @ + 1, !.budgets = Append(@, n)]
  /\ UNCHANGED <<cfgVars, workerVars>>

TraceNext ==
  \/ \E n \in 1 .. MaxBudget : TracedCall(n)
  \/ StepperRun

TraceSpec == TraceInit /\ [][TraceNext]_vars

(***************************************************************************)
(* The same stepper built from whatever the host passes: grids without      *)
(* cells and a catalog without variants included.  The constructor checks   *)
(* none of its arguments.                                                   *)
(***************************************************************************)
LooseConfigs ==
  [tiles : {<<>>, CatChecker}, gridW : 0 .. MaxW, gridH : 0 .. MaxH,
   maxRestarts : {0}, seed : 0 .. MaxSeed]

LooseInit == StepperStart(LooseConfigs)

LooseSpec == LooseInit /\ [][Next]_vars

(***************************************************************************)
(* The same stepper on catalogs with variants of weight 0 and with a heavy  *)
(* variant.                                                                 *)
(***************************************************************************)
PickConfigs ==
  [tiles : {CatZero, CatMixed, CatChain}, gridW : 1 .. MaxW, gridH : 1 .. MaxH,
   maxRestarts : {0}, seed : 0 .. MaxSeed]

PickInit == StepperStart(PickConfigs)

PickSpec == PickInit /\ [][Next]_vars

(***************************************************************************)
(* The worker.  A message handler or a timer callback runs to completion;   *)
(* wpc tells which of them is waiting for the step call it made ("loop":    *)
(* runLoop of generation curGen, "step": the step handler).  loops holds    *)
(* the generations of the runLoop invocations suspended at their await.     *)
(* posted is what the running (or last) handler or callback has posted.     *)
(* Progress posts depend on the clock alone and are left out.               *)
(***************************************************************************)
TARGET_PER_CHUNK == 1

StateMsg(mode) == [type |-> "state", mode |-> mode]
StateTarget(mode, n) == [type |-> "state", mode |-> mode, targetCollapses |-> n]
StateError(m) == [type |-> "state", mode |-> "error", message |-> m]
RestartMsg == [type |-> "restart"]
DoneMsg == [type |-> "done"]
ErrorMsg(m) == [type |-> "error", message |-> m]

RECURSIVE SumEntropy(_)
SumEntropy(c) == IF c >= cells THEN 0 ELSE countDomain(domain[c]) + SumEntropy(c + 1)

computeRemainingPossibilities == SumEntropy(0)

BatchMsg(batch) ==
  [type |-> "batch", collapsed |-> batch,
   stats |-> [collapsed |-> collapsed, cells |-> cells, variants |-> Len(tiles),
              queueSize |-> Len(queue),
              remaining |-> computeRemainingPossibilities]]

\* rebuild(): stepper = new WfcStepper(baseTiles, gridW, gridH, {...opts, seed})
Rebuild ==
  /\ SetFields(resetDomain(FreshFields))
  /\ attempt' = 0
  /\ rng' = U32(seed)
  /\ pc' = "idle"
  /\ budget' = 0
  /\ iter' = 0
  /\ events' = <<>>
  /\ hist' = NoHistory
  /\ built' = TRUE

\* the for loop over the events in runLoop, from event i on
RECURSIVE LoopRelay(_, _, _)
LoopRelay(evs, i, acc) ==
  IF i > Len(evs) THEN acc
  ELSE IF evs[i].type = "collapse"
       THEN LoopRelay(evs, i + 1,
              [acc EXCEPT !.batch = Append(@, [cell |-> evs[i].cell,
                                               tile |-> evs[i].tile])])
  ELSE IF evs[i].type = "restart"
       THEN LoopRelay(evs, i + 1, [acc EXCEPT !.posts = Append(@, RestartMsg)])
  ELSE IF evs[i].type = "done"
       THEN [acc EXCEPT !.running = FALSE, !.term = "done",
                        !.posts = @ \o <<DoneMsg, StateMsg("done")>>]
  ELSE IF evs[i].type = "error"
       THEN [acc EXCEPT !.running = FALSE, !.term = "error",
                        !.posts = @ \o <<ErrorMsg(evs[i].message),
                                         StateError(evs[i].message)>>]
  ELSE LoopRelay(evs, i + 1, acc)

\* the for loop over the events in the step handler, from event i on
RECURSIVE StepRelay(_, _, _)
StepRelay(evs, i, acc) ==
  IF i > Len(evs) THEN acc
  ELSE IF evs[i].type = "collapse"
       THEN StepRelay(evs, i + 1,
              IF acc.sawRestart THEN acc
              ELSE [acc EXCEPT !.batch = Append(@, [cell |-> evs[i].cell,
                                                    tile |-> evs[i].tile])])
  ELSE IF evs[i].type = "restart"
       THEN StepRelay(evs, i + 1,
              [acc EXCEPT !.sawRestart = TRUE, !.batch = <<>>,
                          !.posts = Append(@, RestartMsg)])
  ELSE IF evs[i].type = "done"
       THEN [acc EXCEPT !.running = FALSE, !.term = "done",
                        !.posts = @ \o <<DoneMsg, StateMsg("done")>>]
  ELSE IF evs[i].type = "error"
       THEN [acc EXCEPT !.running = FALSE, !.term = "error",
                        !.posts = @ \o <<ErrorMsg(evs[i].message),
                                         StateError(evs[i].message)>>]
  ELSE StepRelay(evs, i + 1, acc)

RelayStart(run) ==
  [batch |-> <<>>, posts |-> <<>>, running |-> run, term |-> "none",
   sawRestart |-> FALSE, doneOrError |-> FALSE]

LogTerm(term) ==
  [wlog EXCEPT !.sessErr = @ \/ term = "error", !.sessDone = @ \/ term = "done"]

\* onmessage, msg.type = "init"
initBumpsNothing(g) == g

initBumpsGen(g) == g + 1

OnInit ==
  /\ wpc = "idle"
  /\ runGen < MaxGen
  /\ runGen' = initBumpsGen(runGen)
  /\ running' = FALSE
  /\ Rebuild
  /\ posted' = <<StateMsg("paused")>>
  /\ wlog' = [sessErr |-> FALSE, sessDone |-> FALSE,
              pause |-> IF wlog.pause = "pending" THEN "superseded" ELSE wlog.pause,
              cancelled |-> wlog.cancelled \cup loops]
  /\ UNCHANGED <<cfgVars, loops, wpc, curGen>>

\* a run handler that reuses the current generation
runKeepsGen(g) == g

\* const myGen = ++runGen
runBumpsGen(g) == g + 1

\* onmessage, msg.type = "run"; the first chunk of runLoop starts inside it
OnRun ==
  /\ wpc = "idle"
  /\ (built /\ ~running) => runGen < MaxGen
  /\ wlog' = [wlog EXCEPT !.pause = IF @ = "pending" THEN "superseded" ELSE @]
  /\ IF built /\ ~running
     THEN /\ running' = TRUE
          /\ runGen' = runBumpsGen(runGen)
          /\ curGen' = runBumpsGen(runGen)
          /\ posted' = <<StateTarget("running", TARGET_PER_CHUNK)>>
          /\ EnterStep(TARGET_PER_CHUNK)
          /\ wpc' = "loop"
          /\ UNCHANGED <<hist, built, loops>>
     ELSE /\ posted' = <<>>
          /\ UNCHANGED <<stepperVars, built, running, runGen, loops, wpc, curGen>>
  /\ UNCHANGED cfgVars

\* onmessage, msg.type = "pause"
OnPause ==
  /\ wpc = "idle"
  /\ running' = FALSE
  /\ posted' = <<>>
  /\ wlog' = [wlog EXCEPT !.pause =
                IF running /\ runGen \in loops THEN "pending" ELSE @]
  /\ UNCHANGED <<cfgVars, stepperVars, built, runGen, loops, wpc, curGen>>

\* the collapses of the message taken as they come
MaxDropped(a, b) == b

Max(a, b) == IF a >= b THEN a ELSE b

\* onmessage, msg.type = "step", up to the step call
OnStep(collapses) ==
  /\ wpc = "idle"
  /\ built => runGen < MaxGen
  /\ wlog' = [wlog EXCEPT !.pause = IF @ = "pending" THEN "superseded" ELSE @]
  /\ IF built
     THEN /\ running' = FALSE
          /\ runGen' = runGen + 1
          /\ posted' = <<StateTarget("stepping", Max(1, collapses))>>
          /\ EnterStep(Max(1, collapses))
          /\ wpc' = "step"
          /\ UNCHANGED <<hist, built, loops, curGen>>
     ELSE /\ posted' = <<>>
          /\ UNCHANGED <<stepperVars, built, running, runGen, loops, wpc, curGen>>
  /\ UNCHANGED cfgVars

\* the step handler after its step call has returned
StepHandlerEnd ==
  /\ wpc = "step"
  /\ pc = "idle"
  /\ LET r == StepRelay(events, 1, RelayStart(running))
     IN  /\ running' = r.running
         /\ posted' = posted \o r.posts \o <<BatchMsg(r.batch)>>
                        \o (IF ~r.doneOrError THEN <<StateMsg("paused")>> ELSE <<>>)
         /\ wlog' = LogTerm(r.term)
  /\ wpc' = "idle"
  /\ UNCHANGED <<cfgVars, stepperVars, built, runGen, loops, curGen>>

\* runLoop after its step call has returned, up to the await
LoopChunkEnd ==
  /\ wpc = "loop"
  /\ pc = "idle"
  /\ LET r == LoopRelay(events, 1, RelayStart(running))
     IN  /\ running' = r.running
         /\ wlog' = LogTerm(r.term)
         /\ IF ~built \/ curGen # runGen
            THEN /\ posted' = posted \o r.posts
                 /\ loops' = loops
            ELSE /\ posted' = posted \o r.posts \o <<BatchMsg(r.batch)>>
                 /\ loops' = loops \cup {curGen}
  /\ wpc' = "idle"
  /\ UNCHANGED <<cfgVars, stepperVars, built, runGen, curGen>>

\* what runLoop(g) posts when it leaves its while loop
loopExitPostsNothing(g) == <<>>

loopExitPosts(g) == IF g = runGen THEN <<StateMsg("paused")>> ELSE <<>>

\* the await of runLoop(g) resolves: test the while condition again
LoopResume(g) ==
  /\ wpc = "idle"
  /\ g \in loops
  /\ loops' = loops \ {g}
  /\ IF running /\ built /\ g = runGen
     THEN /\ EnterStep(TARGET_PER_CHUNK)
          /\ wpc' = "loop"
          /\ curGen' = g
          /\ posted' = <<>>
          /\ UNCHANGED <<hist, wlog>>
     ELSE /\ posted' = loopExitPosts(g)
          /\ wlog' = [wlog EXCEPT !.pause =
                        IF @ = "pending" /\ g = runGen THEN "acked" ELSE @]
          /\ UNCHANGED <<stepperVars, wpc, curGen>>
  /\ UNCHANGED <<cfgVars, built, running, runGen>>

\* the worker before any message: no stepper yet; cfg is what init will carry
WorkerStart(cfgs) ==
  /\ \E c \in cfgs :
       /\ tiles = c.tiles
       /\ gridW = c.gridW
       /\ gridH = c.gridH
       /\ maxRestarts = c.maxRestarts
       /\ seed = c.seed
  /\ opts = NoOptions
  /\ fetched = NoResponse
  /\ loaded = NotLoaded
  /\ domain = <<>>
  /\ queue = <<>>
  /\ inQueue = <<>>
  /\ domVer = <<>>
  /\ propVer = <<>>
  /\ collapsed = 0
  /\ attempt = 0
  /\ rng = U32(0)
  /\ pc = "idle"
  /\ budget = 0
  /\ iter = 0
  /\ events = <<>>
  /\ hist = NoHistory
  /\ built = FALSE
  /\ running = FALSE
  /\ runGen = 0
  /\ loops = {}
  /\ wpc = "idle"
  /\ curGen = 0
  /\ posted = <<>>
  /\ wlog = NoLog

\* the worker is driven over two-cell strips: its handlers never look at the grid
StripConfigs ==
  {c \in Configs :
     c.tiles \in {CatChecker, CatDisjoint, CatDeadEnd} /\ c.gridW = 2 /\ c.gridH = 1}

WorkerInit == WorkerStart(StripConfigs)

WorkerNext ==
  \/ OnInit
  \/ OnRun
  \/ OnPause
  \/ \E n \in 0 .. MaxBudget : OnStep(n)
  \/ \E g \in 1 .. MaxGen : LoopResume(g)
  \/ LoopChunkEnd
  \/ StepHandlerEnd
  \/ StepperRun

WorkerSpec == WorkerInit /\ [][WorkerNext]_vars

\* setTimeout(r, 0): a suspended runLoop is eventually resumed
WorkerFairSpec ==
  /\ WorkerSpec
  /\ WF_vars(\E g \in 1 .. MaxGen : LoopResume(g))

(***************************************************************************)
(* The stepper with macro seeding (src/wfc_stepper.ts).  Edges are strings, *)
(* two sides match when the strings are equal; the catalog is expanded by   *)
(* buildVariants; resetDomain ends with applyMacroGrassBias.  A step call   *)
(* runs to completion in one action.  opts holds the constructor's          *)
(* arguments; the fields of the stepper are domain, queue, inQueue,         *)
(* collapsed, attempt and rng.                                              *)
(***************************************************************************)
Undef == -1

\* const x = v; F(x): v is evaluated once and F works on its value
Bind(v, F(_)) == CHOOSE r \in {F(x) : x \in {v}} : TRUE

\* v ?? d
orDefault(v, d) == IF v = Undef THEN d ELSE v

TileDef(id, baseId, file, n, e, s, w) ==
  [id |-> id, baseId |-> baseId, file |-> file,
   edges |-> [n |-> n, e |-> e, s |-> s, w |-> w], weight |-> Undef]

Variant(t, id, edges, r) ==
  [id |-> id, baseId |-> t.baseId, file |-> t.file, edges |-> edges,
   weight |-> t.weight, rot |-> r]

\* a turn the other way round
rotateEdges90CCW(e) == [n |-> e.e, e |-> e.s, s |-> e.w, w |-> e.n]

\* CW: N<-W, E<-N, S<-E, W<-S
rotateEdges90CW(e) == [n |-> e.w, e |-> e.n, s |-> e.e, w |-> e.s]

RotSuffix == <<"__r0", "__r1", "__r2", "__r3">>

\* `${t.file}|${edges.n}${edges.e}${edges.s}${edges.w}`
variantKey(t, edges) == t.file \o "|" \o edges.n \o edges.e \o edges.s \o edges.w

\* the loop over r = r .. 3 for one tile; acc is [out, seen]
RECURSIVE RotateTile(_, _, _, _)
RotateTile(t, edges, r, acc) ==
  IF r > 3 THEN acc
  ELSE LET key == variantKey(t, edges)
           acc1 == IF key \in acc.seen THEN acc
                   ELSE [out |-> Append(acc.out,
                                        Variant(t, t.id \o RotSuffix[r + 1], edges, r)),
                         seen |-> acc.seen \cup {key}]
       IN  RotateTile(t, rotateEdges90CW(edges), r + 1, acc1)

RECURSIVE RotateAll(_, _, _)
RotateAll(ts, i, acc) ==
  IF i > Len(ts) THEN acc.out
  ELSE RotateAll(ts, i + 1, RotateTile(ts[i], ts[i].edges, 0, acc))

buildVariants(ts, allowRotate) ==
  IF ~allowRotate THEN [i \in DOMAIN ts |-> Variant(ts[i], ts[i].id, ts[i].edges, 0)]
  ELSE RotateAll(ts, 1, [out |-> <<>>, seen |-> {}])

\* the older generator mixes x with x >>> 7
stepperRngOutput(t) ==
  LET x1 == Imul32(Xor32(t, Shr32(t, 15)), Or32(U32(1), t))
      x2 == Xor32(x1, Add32(x1, Imul32(Xor32(x1, Shr32(x1, 7)), Or32(U32(61), x1))))
  IN  Xor32(x2, Shr32(t, 14))

edgeOf(t, d) ==
  IF d = 0 THEN t.edges.n ELSE IF d = 1 THEN t.edges.e
  ELSE IF d = 2 THEN t.edges.s ELSE t.edges.w

opposite(d) == (d + 2) % 4

stepperBuildCompat(ts) ==
  [d \in DIRS |->
    [a \in 0 .. (Len(ts) - 1) |->
      {b \in 0 .. (Len(ts) - 1) : edgeOf(ts[a + 1], d) = edgeOf(ts[b + 1], opposite(d))}]]

toUpperCase(s) ==
  [i \in DOMAIN s |-> IF s[i] = "g" THEN "G" ELSE IF s[i] = "d" THEN "D" ELSE s[i]]

countChar(s, ch) == Cardinality({i \in DOMAIN s : s[i] = ch})

buildMaskForMinG(ts, minG) ==
  {i \in 0 .. (Len(ts) - 1) : countChar(toUpperCase(ts[i + 1].baseId), "G") >= minG}

\* an intersection that is applied whatever it leaves
intersectUnchecked(dom, cell, mask) ==
  [changed |-> (dom[cell] \cap mask) # dom[cell],
   domain |-> [dom EXCEPT ![cell] = @ \cap mask]]

intersectCellWithMask(dom, cell, mask) ==
  IF dom[cell] \cap mask = {} THEN [changed |-> FALSE, domain |-> dom]
  ELSE [changed |-> (dom[cell] \cap mask) # dom[cell],
        domain |-> [dom EXCEPT ![cell] = @ \cap mask]]

CONTINENTS_LARGE == 4
CONTINENTS_MEDIUM == 3
CONTINENTS_SMALL == 2
LARGE_SIDE == 128
MEDIUM_SIDE == 64
CORE_MIN_G == 10
RIM_MIN_G == 8
RADIUS_MIN_PCT == 14
RADIUS_MAX_PCT == 22
CORE_RADIUS_PCT == 85
RADIUS_FLOOR == 2

NoMacro == [enabled |-> FALSE, continents |-> 0, coreMinG |-> 0, rimMinG |-> 0]

\* this.macro as the constructor sets it from opts.macroGrass
macroOf(m, ncells) ==
  IF ~m.enabled THEN NoMacro
  ELSE [enabled |-> TRUE,
        continents |-> orDefault(m.continents,
                         IF ncells >= LARGE_SIDE * LARGE_SIDE THEN CONTINENTS_LARGE
                         ELSE IF ncells >= MEDIUM_SIDE * MEDIUM_SIDE THEN CONTINENTS_MEDIUM
                         ELSE CONTINENTS_SMALL),
        coreMinG |-> orDefault(m.coreMinG, CORE_MIN_G),
        rimMinG |-> orDefault(m.rimMinG, RIM_MIN_G)]

Min(a, b) == IF a <= b THEN a ELSE b

\* the cells c .. cells-1 of one continent, rows first
RECURSIVE SeedCells(_, _, _, _, _, _, _)
SeedCells(ms, c, cx, cy, r, coreMask, rimMask) ==
  IF c >= cells THEN ms
  ELSE LET x == CellX(c)
           y == CellY(c)
           d2 == (x - cx) * (x - cx) + (y - cy) * (y - cy)
           coreR == Max(1, (r * CORE_RADIUS_PCT) \div 100)
           inBox == /\ x >= Max(0, cx - r) /\ x <= Min(gridW - 1, cx + r)
                    /\ y >= Max(0, cy - r) /\ y <= Min(gridH - 1, cy + r)
       IN  IF ~inBox \/ d2 > r * r
           THEN SeedCells(ms, c + 1, cx, cy, r, coreMask, rimMask)
           ELSE LET mask == IF d2 <= coreR * coreR /\ coreMask # {}
                            THEN coreMask ELSE rimMask
                    res == intersectCellWithMask(ms.domain, c, mask)
                    ms1 == [ms EXCEPT !.domain = res.domain]
                    ms2 == IF res.changed THEN enqueue(ms1, c) ELSE ms1
                IN  Bind(ms2, LAMBDA m : SeedCells(m, c + 1, cx, cy, r, coreMask, rimMask))

\* continents i .. k-1: three draws (cx, cy, r), then the cells of the disc
RECURSIVE SeedContinents(_, _, _, _, _)
SeedContinents(ms, i, k, coreMask, rimMask) ==
  IF i >= k THEN ms
  ELSE LET minDim == Min(gridW, gridH)
           rMin == Max(RADIUS_FLOOR, (minDim * RADIUS_MIN_PCT) \div 100)
           rMax == Max(rMin + 1, (minDim * RADIUS_MAX_PCT) \div 100)
           t1 == RngAdvance(ms.rng)
           t2 == RngAdvance(t1)
           t3 == RngAdvance(t2)
           cx == RngScale(stepperRngOutput(t1), gridW)
           cy == RngScale(stepperRngOutput(t2), gridH)
           r == rMin + RngScale(stepperRngOutput(t3), rMax - rMin + 1)
       IN  Bind(<<cx, cy, r, t3>>, LAMBDA g :
             Bind(SeedCells([ms EXCEPT !.rng = g[4]], 0, g[1], g[2], g[3],
                            coreMask, rimMask),
                  LAMBDA m : SeedContinents(m, i + 1, k, coreMask, rimMask)))

\* a seeding that goes on with an empty rim mask
seedingSkippedNever(rimMask) == FALSE

\* if (rimAny === 0) return
seedingSkipped(rimMask) == rimMask = {}

applyMacroGrassBias(ms, mac) ==
  IF ~mac.enabled THEN ms
  ELSE LET coreMask == buildMaskForMinG(tiles, mac.coreMinG)
           rimMask == buildMaskForMinG(tiles, mac.rimMinG)
       IN  IF seedingSkipped(rimMask) THEN ms
           ELSE Bind(<<ms, coreMask, rimMask>>, LAMBDA a :
                  SeedContinents(a[1], 0, Max(1, mac.continents), a[2], a[3]))

stepperResetDomain(ms, mac) ==
  applyMacroGrassBias(
    [ms EXCEPT !.domain = [c \in Cells |->
                             maskUnusedHighBits(setAll(words), words, Len(tiles))],
               !.queue = <<>>,
               !.inQueue = [c \in Cells |-> 0],
               !.collapsed = 0],
    mac)

\* the stepper right after its constructor
stepperNew(mac) ==
  stepperResetDomain(
    [domain |-> [c \in Cells |-> {}], queue |-> <<>>, inQueue |-> [c \in Cells |-> 0],
     collapsed |-> 0, attempt |-> 0, rng |-> U32(seed)],
    mac)

weightOf(t) == orDefault(t.weight, 1)

RECURSIVE DomainWeight(_, _)
DomainWeight(S, idx) ==
  IF idx >= words * WordBits THEN 0
  ELSE (IF idx \in S /\ weightOf(tiles[idx + 1]) > 0 THEN weightOf(tiles[idx + 1]) ELSE 0)
       + DomainWeight(S, idx + 1)

pickTileFromDomain(S, u) == NthOption(S, RngScale(u, Cardinality(S)))

\* the lowest bit of the highest word that is not zero
LastValid(S) ==
  IF S = {} THEN -1
  ELSE LET top == CHOOSE b \in S : \A c \in S : c <= b
       IN  Lowest({b \in S : b \div WordBits = top \div WordBits})

RECURSIVE RollScan(_, _, _, _, _)
RollScan(S, idx, cum, u, total) ==
  IF idx >= words * WordBits THEN LastValid(S)
  ELSE IF idx \in S /\ weightOf(tiles[idx + 1]) > 0
       THEN (IF Reached(cum + weightOf(tiles[idx + 1]), u, total) THEN idx
             ELSE RollScan(S, idx + 1, cum + weightOf(tiles[idx + 1]), u, total))
       ELSE RollScan(S, idx + 1, cum, u, total)

pickTileFromDomainWeighted(S, u) ==
  LET total == DomainWeight(S, 0)
  IN  IF ~(total > 0) THEN pickTileFromDomain(S, u) ELSE RollScan(S, 0, 0, u, total)

PropagateEvent(cell) == [type |-> "propagate", cell |-> cell]

unionCompatForCellInto(dom, cell, compatDir) == UNION {compatDir[t] : t \in dom[cell]}

\* the loop over the directions d .. 3 of a popped cell; out = "return" when
\* the step call returns from inside it
RECURSIVE PropagateFrom(_, _, _, _, _)
PropagateFrom(ms, ev, cell, d, mac) ==
  IF d > 3 THEN [s |-> ms, events |-> ev, out |-> "go"]
  ELSE LET nb == Neighbor(cell, d)
       IN  IF nb < 0 THEN PropagateFrom(ms, ev, cell, d + 1, mac)
           ELSE LET allowed == unionCompatForCellInto(ms.domain, cell,
                                                      stepperBuildCompat(tiles)[d])
                    next == ms.domain[nb] \cap allowed
                    ms1 == [ms EXCEPT !.domain[nb] = next]
                    ev1 == Append(ev, PropagateEvent(nb))
                IN  IF next = ms.domain[nb]
                    THEN PropagateFrom(ms, ev, cell, d + 1, mac)
                    ELSE IF domainIsEmpty(next)
                    THEN (IF ms1.attempt + 1 > maxRestarts
                          THEN [s |-> [ms1 EXCEPT !.attempt = @ + 1],
                                events |-> Append(ev1, ErrorEvent(maxRestarts)),
                                out |-> "return"]
                          ELSE [s |-> stepperResetDomain(
                                        [ms1 EXCEPT !.attempt = @ + 1], mac),
                                events |-> Append(ev1, RestartEvent(ms1.attempt + 1)),
                                out |-> "return"])
                    ELSE Bind(<<enqueue(ms1, nb), ev1>>, LAMBDA a :
                           PropagateFrom(a[1], a[2], cell, d + 1, mac))

\* while (this.queue.length > 0 && propBudget-- > 0)
RECURSIVE Consume(_, _, _, _)
Consume(ms, ev, propBudget, mac) ==
  IF Len(ms.queue) = 0 \/ propBudget <= 0 THEN [s |-> ms, events |-> ev, out |-> "go"]
  ELSE LET cell == ms.queue[Len(ms.queue)]
           ms1 == [ms EXCEPT !.queue = SubSeq(@, 1, Len(@) - 1), !.inQueue[cell] = 0]
       IN  Bind(PropagateFrom(ms1, ev, cell, 0, mac), LAMBDA p :
             IF p.out = "return" THEN p
             ELSE Consume(p.s, p.events, propBudget - 1, mac))

\* the iterations i .. maxCollapses-1 of step
RECURSIVE StepFrom(_, _, _, _, _, _)
StepFrom(ms, ev, i, maxCollapses, maxPropagations, mac) ==
  IF i >= maxCollapses THEN [s |-> ms, events |-> ev]
  ELSE Bind(Consume(ms, ev, maxPropagations, mac), LAMBDA c :
         IF c.out = "return" \/ Len(c.s.queue) > 0
         THEN [s |-> c.s, events |-> c.events]
         ELSE LET t1 == RngAdvance(c.s.rng)
                  t2 == RngAdvance(t1)
              IN  Bind(findMinEntropyCell(c.s.domain, cells, stepperRngOutput(t1)),
                       LAMBDA cell :
                    IF cell = -1
                    THEN [s |-> [c.s EXCEPT !.rng = t1],
                          events |-> Append(c.events, DoneEvent)]
                    ELSE Bind(pickTileFromDomainWeighted(c.s.domain[cell],
                                                         stepperRngOutput(t2)),
                              LAMBDA chosen :
                           Bind(enqueue([c.s EXCEPT !.domain[cell] = restrictToTile(chosen),
                                                    !.collapsed = @ + 1,
                                                    !.rng = t2], cell),
                                LAMBDA m :
                             StepFrom(m, Append(c.events, CollapseEvent(cell, chosen)),
                                      i + 1, maxCollapses, maxPropagations, mac)))))

stepperStep(ms, maxCollapses, maxPropagations, mac) ==
  Bind(ms, LAMBDA m : StepFrom(m, <<>>, 0, maxCollapses, maxPropagations, mac))

macro == macroOf(opts.macroGrass, cells)

MacroFields ==
  [domain |-> domain, queue |-> queue, inQueue |-> inQueue,
   collapsed |-> collapsed, attempt |-> attempt, rng |-> rng]

\* base tiles: baseId is a sequence of characters
Grass(id, baseId, file) == TileDef(id, baseId, file, "a", "a", "a", "a")

\* three tiles with 2, 1 and 0 G's that match one another on every side
GrassTiles ==
  << Grass("lawn", <<"G", "g">>, "lawn.png"),
     Grass("edge", <<"g", "D">>, "edge.png"),
     Grass("dirt", <<"d", "D">>, "dirt.png") >>

\* the second tile has nothing that fits on its east and south sides
DeadEndTiles ==
  << TileDef("open", <<"G", "G">>, "open.png", "k", "k", "k", "k"),
     TileDef("wall", <<"G", "D">>, "wall.png", "k", "x", "x", "k") >>

\* a tile with four different edges, one with two, one with one
TurnTiles ==
  << TileDef("bend", <<"D">>, "bend.png", "a", "b", "c", "d"),
     TileDef("pipe", <<"D">>, "pipe.png", "a", "b", "a", "b"),
     TileDef("full", <<"D">>, "full.png", "a", "a", "a", "a") >>

\* four equal edges on every tile, one file per tile
SquareTiles ==
  << TileDef("sand", <<"D">>, "sand.png", "a", "a", "a", "a"),
     TileDef("rock", <<"D">>, "rock.png", "b", "b", "b", "b") >>

\* four equal edges on every tile, two tiles drawn from the same file
SharedFileTiles ==
  << TileDef("sand", <<"D">>, "sand.png", "a", "a", "a", "a"),
     TileDef("sand2", <<"D">>, "sand.png", "a", "a", "a", "a"),
     TileDef("rock", <<"D">>, "rock.png", "b", "b", "b", "b") >>

MacroGrass(enabled, continents, coreMinG, rimMinG) ==
  [enabled |-> enabled, continents |-> continents, coreMinG |-> coreMinG,
   rimMinG |-> rimMinG]

MacroOff == MacroGrass(FALSE, Undef, Undef, Undef)

Options(baseTiles, allowRotate, macroGrass) ==
  [baseTiles |-> baseTiles, allowRotate |-> allowRotate, macroGrass |-> macroGrass]

SeedingOptions ==
  { Options(GrassTiles, FALSE, MacroGrass(TRUE, Undef, 2, 1)),
    Options(GrassTiles, FALSE, MacroGrass(TRUE, 1, 0, 1)),
    Options(GrassTiles, FALSE, MacroGrass(TRUE, Undef, 0, Undef)),
    Options(GrassTiles, FALSE, MacroOff),
    Options(DeadEndTiles, FALSE, MacroGrass(TRUE, Undef, 2, 1)),
    Options(DeadEndTiles, FALSE, MacroGrass(TRUE, Undef, 0, Undef)) }

RotationOptions ==
  { Options(TurnTiles, TRUE, MacroOff),
    Options(SquareTiles, TRUE, MacroOff),
    Options(SquareTiles, FALSE, MacroOff),
    Options(SharedFileTiles, TRUE, MacroOff) }

MacroConfigs ==
  [opts : SeedingOptions, gridW : {2, MaxMacroW}, gridH : {1, 2},
   maxRestarts : {1}, seed : 0 .. MaxSeed]
  \cup [opts : RotationOptions, gridW : {2}, gridH : {1},
        maxRestarts : {1}, seed : {0}]

\* new WfcStepper(baseTiles, gridW, gridH, {seed, allowRotate, maxRestarts, macroGrass})
MacroInit ==
  /\ \E c \in MacroConfigs :
       /\ opts = c.opts
       /\ gridW = c.gridW
       /\ gridH = c.gridH
       /\ maxRestarts = c.maxRestarts
       /\ seed = c.seed
  /\ tiles = buildVariants(opts.baseTiles, opts.allowRotate)
  /\ fetched = NoResponse
  /\ loaded = NotLoaded
  /\ \E s \in {stepperNew(macro)} :
       /\ domain = s.domain
       /\ queue = s.queue
       /\ inQueue = s.inQueue
       /\ collapsed = s.collapsed
       /\ attempt = s.attempt
       /\ rng = s.rng
  /\ domVer = <<>>
  /\ propVer = <<>>
  /\ pc = "idle"
  /\ budget = 0
  /\ iter = 0
  /\ events = <<>>
  /\ hist = NoHistory
  /\ built = TRUE
  /\ running = FALSE
  /\ runGen = 0
  /\ loops = {}
  /\ wpc = "idle"
  /\ curGen = 0
  /\ posted = <<>>
  /\ wlog = NoLog

CountType(ev, ty) == Cardinality({i \in DOMAIN ev : ev[i].type = ty})

\* step(maxCollapses, maxPropagations), from the call to the return
MacroStepCall(maxCollapses, maxPropagations) ==
  /\ Len(hist.budgets) < MaxMacroCalls
  /\ \E r \in {stepperStep(MacroFields, maxCollapses, maxPropagations, macro)} :
         /\ domain' = r.s.domain
         /\ queue' = r.s.queue
         /\ inQueue' = r.s.inQueue
         /\ collapsed' = r.s.collapsed
         /\ attempt' = r.s.attempt
         /\ rng' = r.s.rng
         /\ events' = r.events
         /\ hist' = [hist EXCEPT
                       !.calls = @ + 1,
                       !.budgets = Append(@, <<maxCollapses, maxPropagations>>),
                       !.restarts = @ + CountType(r.events, "restart"),
                       !.contradictions = @ + CountType(r.events, "restart")
                                            + CountType(r.events, "error"),
                       !.errors = @ + CountType(r.events, "error"),
                       !.done = @ \/ CountType(r.events, "done") > 0]
  /\ UNCHANGED <<cfgVars, domVer, propVer, pc, budget, iter, workerVars>>

\* a call that propagates once at most, or calls that drain the queue
MacroNext ==
  \/ MacroStepCall(1, 1)
  \/ \E mc \in 1 .. MaxBudget : MacroStepCall(mc, 8)

MacroSpec == MacroInit /\ [][MacroNext]_vars

(***************************************************************************)
(* Properties of the stepper between step calls.                            *)
(***************************************************************************)
Emitted(ty) == \E i \in DOMAIN events : events[i].type = ty

AllVariants == 0 .. (Len(tiles) - 1)

\* C1: between step calls (the stepper is idle), every cell's domain holds at
\* least one variant, also after a call that returned an error event.
C1_DomainsNonEmpty ==
  pc = "idle" => \A c \in Cells : countDomain(domain[c]) >= 1

\* C2: between step calls, two adjacent cells that both hold exactly one
\* variant hold compatible variants: the variant of the d-side neighbour is in
\* compat[d][variant of the cell], whatever the catalog.
C2_CollapsedNeighborsCompatible ==
  pc = "idle" =>
    \A c \in Cells : \A d \in DIRS :
      (/\ Neighbor(c, d) >= 0
       /\ countDomain(domain[c]) = 1
       /\ countDomain(domain[Neighbor(c, d)]) = 1)
      => getSingleIndex(domain[Neighbor(c, d)])
           \in compat[d][getSingleIndex(domain[c])]

\* C3: when a step call has emitted done, every cell holds exactly one variant.
C3_DoneMeansAllSingle ==
  Emitted("done") => \A c \in Cells : countDomain(domain[c]) = 1

\* C4: once an error event has been emitted, no later step of the stepper
\* changes domain, queue, inQueue, domVer, propVer, collapsed, attempt or the
\* PRNG state, and a later step call returns an empty event list.
C4_Step ==
  hist.errors > 0 =>
    /\ UNCHANGED fieldVars
    /\ (pc = "drain" /\ pc' = "idle") => events' = <<>>
C4_NoOpAfterError == [][C4_Step]_vars

\* C5: each contradiction adds exactly one to attempt; the k-th contradiction
\* appends restart{attempt: k} while k <= maxRestarts and the error event with
\* the message naming maxRestarts when k = maxRestarts + 1; a session emits at
\* most maxRestarts restart events.
C5_Step ==
  hist'.contradictions = hist.contradictions + 1 =>
    LET k == hist'.contradictions
    IN  /\ attempt' = attempt + 1
        /\ k <= maxRestarts =>
             events' = events \o <<[type |-> "restart", attempt |-> k], DiagEvent>>
        /\ k = maxRestarts + 1 =>
             events' = events \o
               <<[type |-> "error",
                  message |-> "WFC failed after " \o ToString(maxRestarts)
                                \o " restarts."], DiagEvent>>
C5_RestartAccounting ==
  /\ [][C5_Step]_vars
  /\ [](hist.restarts <= maxRestarts)
  /\ [](maxRestarts = 0 => ~Emitted("restart"))

\* C5 witness: a session whose restarts were used up and that then failed
C5_Witness == hist.restarts >= 1 /\ hist.errors >= 1 /\ Emitted("error")

\* C7: the transition of a contradiction that restarts leaves the freshly
\* constructed arrays: every domain is the all-variants mask, the queue is
\* empty, inQueue, domVer and propVer are zero everywhere, collapsed is 0.
C7_Step ==
  (hist'.contradictions = hist.contradictions + 1 /\ attempt' <= maxRestarts) =>
    /\ \A c \in Cells : domain'[c] = AllVariants
    /\ queue' = <<>>
    /\ \A c \in Cells : inQueue'[c] = 0 /\ domVer'[c] = 0 /\ propVer'[c] = 0
    /\ collapsed' = 0
    /\ DOMAIN domain' = Cells
C7_RestartIsFreshState == [][C7_Step]_vars

\* C7 witness: a restart has just been reported after at least one collapse
C7_Witness ==
  /\ pc = "idle"
  /\ Emitted("restart")
  /\ Emitted("collapse")
  /\ collapsed = 0

(***************************************************************************)
(* Properties of the worker.                                                *)
(***************************************************************************)
\* C6: once the worker has relayed an error for the session, a later run or
\* step message is a no-op: it starts no step call and posts nothing.
C6_Step ==
  (wlog.sessErr /\ (OnRun \/ \E n \in 0 .. MaxBudget : OnStep(n))) =>
    (posted' = <<>> /\ pc' = "idle")
C6_NoOpAfterRelayedError == [][C6_Step]_vars

\* C8: when a restart is relayed for a step call, the batch posted for that
\* call carries no collapse (every collapse of the call preceded the
\* restart), in the run loop as in the step handler.
C8_NoStaleCollapseInBatch ==
  \A i \in DOMAIN posted : \A j \in DOMAIN posted :
    (posted[i].type = "restart" /\ posted[j].type = "batch")
      => posted[j].collapsed = <<>>

\* C9: an init message posts exactly one state{paused}, leaves running false
\* and a freshly built idle stepper; a run loop that was in flight when an
\* init was processed makes no step call and posts nothing when it resumes.
C9_Step ==
  /\ OnInit =>
       /\ posted' = <<StateMsg("paused")>>
       /\ running' = FALSE
       /\ built'
       /\ pc' = "idle"
       /\ \A c \in Cells : domain'[c] = AllVariants /\ domVer'[c] = 0
       /\ queue' = <<>> /\ collapsed' = 0 /\ attempt' = 0 /\ rng' = U32(seed)
  /\ \A g \in wlog.cancelled :
       LoopResume(g) => (posted' = <<>> /\ pc' = "idle" /\ UNCHANGED fieldVars)
C9_InitCancelsLoop ==
  /\ [][C9_Step]_vars
  /\ [](wpc = "loop" => curGen \notin wlog.cancelled)

\* C9 witness: a loop that was in flight at an init has resumed since
C9_Witness ==
  /\ \E g \in wlog.cancelled : g \notin loops
  /\ posted = <<>>
  /\ wpc = "idle"

\* C10: after a pause processed while the run loop is active, and as long as
\* no run, step or init message follows, the loop starts no further step call
\* and the worker eventually posts state{paused}.
C10_Step ==
  wlog.pause = "pending" =>
    \A g \in 1 .. MaxGen : LoopResume(g) => pc' = "idle"
C10_PauseAcknowledged ==
  /\ [][C10_Step]_vars
  /\ (wlog.pause = "pending") ~>
       (\/ wlog.pause = "superseded"
        \/ (wlog.pause = "acked" /\ posted = <<StateMsg("paused")>>))

\* C10 witness: the loop has answered a pending pause with state{paused}
C10_Witness == wlog.pause = "acked" /\ posted = <<StateMsg("paused")>>

(***************************************************************************)
(* Properties of the collapse loop, the queue and the domains.              *)
(***************************************************************************)
\* the transition is a collapse / a contradiction answered by a restart
IsCollapse == collapsed' = collapsed + 1
IsRestart == hist'.restarts = hist.restarts + 1

\* C12: at the moment a cell is collapsed the propagation queue is empty (the
\* drain of the previous collapse has run to completion); the collapse event
\* is appended before its drain starts: right after the collapse the queue
\* holds the collapsed cell alone and no other cell's domain has changed yet.
C12_Step ==
  IsCollapse =>
    /\ queue = <<>>
    /\ Len(events') = Len(events) + 1
    /\ LET ev == events'[Len(events')]
       IN  /\ ev.type = "collapse"
           /\ SubSeq(events', 1, Len(events)) = events
           /\ queue' = <<ev.cell>>
           /\ domain'[ev.cell] = {ev.tile}
           /\ \A c \in Cells \ {ev.cell} : domain'[c] = domain[c]
C12_DrainBeforeNextCollapse == [][C12_Step]_vars

\* C12 witness: a second collapse of one step call has just been appended,
\* after the drain of the first one had changed another cell
C12_Witness ==
  /\ pc = "drain"
  /\ Len(events) >= 2
  /\ events[Len(events)].type = "collapse"
  /\ events[Len(events) - 1].type = "collapse"
  /\ queue = <<events[Len(events)].cell>>
  /\ \E c \in Cells : domVer[c] > 0 /\ c # events[Len(events)].cell
                        /\ c # events[Len(events) - 1].cell

\* C13: in every reachable state of the stepper no cell occurs twice in the
\* queue, and inQueue[c] = 1 exactly when c is in the queue.
C13_QueueDedup ==
  /\ \A i \in DOMAIN queue : \A j \in DOMAIN queue : queue[i] = queue[j] => i = j
  /\ \A c \in Cells : inQueue[c] \in {0, 1}
  /\ \A c \in Cells : inQueue[c] = 1 <=> \E i \in DOMAIN queue : queue[i] = c

\* C13 witness: a cell waiting in the queue has been shrunk a second time (its
\* second enqueue met inQueue = 1)
C13_Witness ==
  /\ pc = "drain"
  /\ \E i \in DOMAIN queue : domVer[queue[i]] >= 2 /\ propVer[queue[i]] = 0

\* C14: every stepper transition other than a restart leaves each cell's
\* domain a subset of its previous value, and the variant chosen by a
\* collapse is a member of the cell's domain before the collapse.
C14_Step ==
  /\ ~IsRestart => \A c \in Cells : domain'[c] \subseteq domain[c]
  /\ IsCollapse =>
       LET ev == events'[Len(events')]
       IN  ev.tile \in domain[ev.cell] /\ domain'[ev.cell] = {ev.tile}
C14_MonotoneShrink == [][C14_Step]_vars

\* C14 witness: in the attempt that follows a restart, a drain has shrunk an
\* uncollapsed cell to fewer variants, more than one of them left
C14_Witness ==
  /\ hist.restarts >= 1
  /\ collapsed >= 1
  /\ \E c \in Cells : countDomain(domain[c]) > 1
                        /\ countDomain(domain[c]) < Len(tiles)

\* C16: the transition of a restart leaves the PRNG state as it was and adds
\* the one of the contradiction to attempt, nothing else: the draws of the
\* next attempt continue the stream.
C16_Step ==
  IsRestart => (rng' = rng /\ attempt' = attempt + 1)
C16_RestartKeepsRngAndAttempt ==
  /\ [][C16_Step]_vars
  /\ [](hist.restarts >= 1 => (rng # U32(seed) /\ attempt >= hist.restarts))

\* C16 witness: after a restart a collapse of the next attempt has drawn again
C16_Witness ==
  /\ hist.restarts >= 1
  /\ attempt = 1
  /\ collapsed >= 1
  /\ rng # U32(seed)

\* C17: with the one-variant catalog whose edges all carry the same key, a
\* session that has emitted done has collapsed every cell: W*H collapse
\* events (no restart is possible), one on the 1x1 grid.
C17_OneVariantCollapsesEveryCell ==
  (tiles = CatSelf /\ hist.done) => collapsed = cells

\* C18: with two variants that share no key, on a grid of two cells or more,
\* a session never emits done (every attempt ends in a contradiction, and
\* the session in an error).
C18_DisjointNeverDone ==
  (tiles = CatDisjoint /\ cells >= 2) => ~hist.done

\* does every pair of edge-adjacent cells satisfy R(variant, variant)?
AdjacentPairs(R(_, _)) ==
  \A c \in Cells : \A d \in DIRS :
    Neighbor(c, d) >= 0 =>
      R(getSingleIndex(domain[c]), getSingleIndex(domain[Neighbor(c, d)]))

Differ(a, b) == a # b
Same(a, b) == a = b

IsScenario2 == tiles = CatChecker /\ gridW = 2 /\ gridH = 2

\* C19 as claimed: for the catalog {A: N/S x, E/W y; B: N/S y, E/W x} on the
\* 2x2 grid, the session ends with done and in a checkerboard: every pair of
\* edge-adjacent cells holds different variants.
C19_DoneIsCheckerboard ==
  (IsScenario2 /\ hist.done) =>
    (\A c \in Cells : countDomain(domain[c]) = 1) /\ AdjacentPairs(Differ)

\* C19 amended: for that catalog on the 2x2 grid no contradiction occurs, the
\* second step call at the latest has emitted done, and at done every cell
\* holds one variant, the same in every pair of edge-adjacent cells.
C19_DoneIsUniform ==
  IsScenario2 =>
    /\ hist.contradictions = 0
    /\ (pc = "idle" /\ hist.calls >= 2) => hist.done
    /\ hist.done =>
         (\A c \in Cells : countDomain(domain[c]) = 1) /\ AdjacentPairs(Same)

\* C19 witness: done has been emitted on the 2x2 grid with variant B on top
C19_Witness ==
  /\ IsScenario2
  /\ Emitted("done")
  /\ domain[0] = {1}

\* C20: bit b is set in compat[d][a] if and only if bit a is set in
\* compat[opp(d)][b], with opp(d) = (d + 2) mod 4.
C20_CompatSymmetric ==
  \A d \in DIRS : \A a \in AllVariants : \A b \in AllVariants :
    b \in compat[d][a] <=> a \in compat[(d + 2) % 4][b]

\* C20 witness: a table with a pair that matches and a pair that does not
C20_Witness ==
  /\ tiles = CatChain
  /\ 1 \in compat[0][2]
  /\ 2 \in compat[2][1]
  /\ 0 \notin compat[0][2]
  /\ compat[3][2] = {}

(***************************************************************************)
(* Determinism.  A second stepper instance, built from the same             *)
(* configuration, as a value: step(n) run as one function from the          *)
(* instance before the call to the instance after it, and a session as the  *)
(* fold of step over the budgets of its calls.                              *)
(***************************************************************************)
TwinStart ==
  [f |-> resetDomain(FreshFields), attempt |-> 0, rng |-> U32(seed),
   events |-> <<>>, stop |-> FALSE]

\* the while loop of drain(), up to an empty queue or a contradiction
RECURSIVE DrainAll(_)
DrainAll(s) ==
  IF queueDrained(s.queue) THEN s
  ELSE LET s1 == PopOnce(s)
       IN  IF s1.out = "contradiction" THEN s1 ELSE DrainAll(s1)

\* drain() and, when it returns false, the return of step
TwinDrain(t) ==
  LET s == DrainAll(t.f)
  IN  IF s.out # "contradiction" THEN [t EXCEPT !.f = s]
      ELSE IF capExceeded(t.attempt + 1, maxRestarts)
           THEN [t EXCEPT !.f = [s EXCEPT !.out = "ok"],
                          !.attempt = @ + 1,
                          !.events = @ \o <<ErrorEvent(maxRestarts), DiagEvent>>,
                          !.stop = TRUE]
           ELSE [t EXCEPT !.f = [resetDomain(s) EXCEPT !.out = "ok"],
                          !.attempt = @ + 1,
                          !.rng = rngAfterRestart(@, seed),
                          !.events = @ \o <<RestartEvent(t.attempt + 1), DiagEvent>>,
                          !.stop = TRUE]

\* iterations i .. n-1 of the for loop, and the closing diag
RECURSIVE TwinCollapse(_, _, _)
TwinCollapse(t, i, n) ==
  IF i >= n THEN [t EXCEPT !.events = Append(@, DiagEvent)]
  ELSE LET t1 == RngAdvance(t.rng)
           cell == findMinEntropyCell(t.f.domain, cells, RngOutput(t1))
           t2 == RngAdvance(t1)
       IN  IF cell = -1
           THEN [t EXCEPT !.rng = t1, !.events = @ \o <<DoneEvent, DiagEvent>>]
           ELSE LET chosen == pickTileWithNeighborBias(t.f.domain, cell, RngOutput(t2))
                    s1 == bumpVer([t.f EXCEPT !.domain[cell] = restrictToTile(chosen)],
                                  cell)
                    s2 == enqueue([s1 EXCEPT !.collapsed = @ + 1], cell)
                    u == TwinDrain([t EXCEPT !.f = s2, !.rng = t2,
                                     !.events = Append(@, CollapseEvent(cell, chosen))])
                IN  IF u.stop THEN u ELSE TwinCollapse(u, i + 1, n)

\* a call that seeds the PRNG anew on entry
TwinStepReseeding(t, n) ==
  LET t0 == TwinDrain([t EXCEPT !.events = <<>>, !.stop = FALSE, !.rng = U32(seed)])
  IN  IF t0.stop THEN t0 ELSE TwinCollapse(t0, 0, n)

TwinStep(t, n) ==
  LET t0 == TwinDrain([t EXCEPT !.events = <<>>, !.stop = FALSE])
  IN  IF t0.stop THEN t0 ELSE TwinCollapse(t0, 0, n)

\* the instance after the first k calls of the session
RECURSIVE TwinRun(_, _)
TwinRun(budgets, k) ==
  IF k = 0 THEN TwinStart ELSE TwinStep(TwinRun(budgets, k - 1), budgets[k])

IsCollapseOrRestart(ev) == ev.type \in {"collapse", "restart"}

C11_Step ==
  /\ \A n \in 0 .. MaxBudget :
       (built /\ OnStep(n)) =>
         /\ running' = FALSE
         /\ \A g \in loops' : g < runGen'
         /\ wpc' = "step"
         /\ pc' = "drain"
         /\ budget' = (IF n >= 1 THEN n ELSE 1)
         /\ posted' = <<[type |-> "state", mode |-> "stepping",
                         targetCollapses |-> IF n >= 1 THEN n ELSE 1]>>
  /\ \A g \in loops :
       (g < runGen /\ LoopResume(g)) =>
         (posted' = <<>> /\ pc' = "idle" /\ wpc' = "idle" /\ UNCHANGED fieldVars)
  /\ runGen' >= runGen
  /\ (wpc = "step" /\ pc = "idle") => (pc' = "idle" /\ wpc' = "idle")
  /\ StepHandlerEnd =>
       LET k == Len(posted')
       IN  /\ k >= 3
           /\ posted'[1] = [type |-> "state", mode |-> "stepping",
                            targetCollapses |-> budget]
           /\ posted'[k - 1].type = "batch"
           /\ posted'[k] = [type |-> "state", mode |-> "paused"]
           /\ \A i \in 2 .. (k - 2) :
                /\ posted'[i].type # "batch"
                /\ posted'[i].type = "state" => posted'[i].mode \in {"done", "error"}
           /\ running' = FALSE
C11_StepMessage ==
  /\ [][C11_Step]_vars
  /\ [](\A g \in loops : g <= runGen)

\* C11 witness: the step handler has ended with state{paused} while a run
\* loop it made stale is still suspended
C11_Witness ==
  /\ wpc = "idle"
  /\ Len(posted) >= 3
  /\ posted[1] = StateTarget("stepping", 1)
  /\ posted[Len(posted)] = StateMsg("paused")
  /\ \E g \in loops : g < runGen

(***************************************************************************)
(* The compatibility table, the domain words and the cell selection.        *)
(***************************************************************************)
\* the keys of the rules on side d of variant t
SideKeys(t, d) == {tiles[t + 1].edges[d + 1][i].key : i \in DOMAIN tiles[t + 1].edges[d + 1]}

\* C21: bit b is set in compat[d][a] exactly when side d of a and side opp(d)
\* of b share a key; a side without rules gives a clear bit; no bit at an
\* index >= the number of variants is set.
C21_CompatIsSharedKey ==
  \A d \in DIRS : \A a \in AllVariants :
    /\ compat[d][a] \subseteq AllVariants
    /\ \A b \in AllVariants :
         /\ b \in compat[d][a] <=> SideKeys(a, d) \cap SideKeys(b, (d + 2) % 4) # {}
         /\ (SideKeys(a, d) = {} \/ SideKeys(b, (d + 2) % 4) = {}) => b \notin compat[d][a]

\* C21 witness: a catalog with a side without rules, a pair that shares one
\* of two keys, and a pair that shares none
C21_Witness ==
  /\ tiles = CatDetour
  /\ SideKeys(1, 0) = {}
  /\ compat[2][0] = {0, 2}
  /\ compat[0][1] = {}
  /\ 1 \notin compat[1][2]

\* C22: in every reachable state of the stepper every domain holds bits below
\* the number of variants only: the unused high bits of the last word are 0.
C22_UnusedHighBitsClear ==
  \A c \in Cells : \A b \in domain[c] : b >= 0 /\ b < Len(tiles)

\* C22 witness: after a reset, a collapse and a propagation have written words
C22_Witness ==
  /\ hist.restarts >= 1
  /\ collapsed >= 1
  /\ \E c \in Cells : domVer[c] >= 1 /\ countDomain(domain[c]) > 1

\* every variant left in a neighbour has a partner left in the cell
ArcConsistent ==
  \A c \in Cells : \A d \in DIRS :
    Neighbor(c, d) >= 0 =>
      \A v \in domain[Neighbor(c, d)] : \E t \in domain[c] : v \in compat[d][t]

\* C24: when a drain has returned successfully (the queue is empty and the
\* step call goes on), the grid is arc-consistent, cells that never changed
\* since the last reset included.  Stated for the drains that follow a
\* collapse and have processed a cell, in sessions without contradiction.
C24_ArcConsistentAfterDrain ==
  (/\ pc = "drain"
   /\ queue = <<>>
   /\ hist.errors = 0
   /\ hist.contradictions = 0
   /\ collapsed >= 1
   /\ \E c \in Cells : propVer[c] >= 1) => ArcConsistent

\* C25: findMinEntropyCell returns -1 exactly when no cell has more than one
\* variant; otherwise a cell of least count among the cells with more than
\* one variant, the first such cell in the cyclic scan from the drawn start.
C25_MinEntropyCell ==
  LET u == RngOutput(RngAdvance(rng))
      start == RngScale(u, cells)
      r == findMinEntropyCell(domain, cells, u)
      open == {c \in Cells : countDomain(domain[c]) > 1}
      off(c) == (c - start + cells) % cells
  IN  /\ r = -1 <=> open = {}
      /\ r # -1 =>
           /\ r \in open
           /\ \A c \in open :
                /\ countDomain(domain[r]) <= countDomain(domain[c])
                /\ countDomain(domain[c]) = countDomain(domain[r]) => off(r) <= off(c)

\* C25 witness: the scan is about to pass over a cell of three variants and
\* return a later cell of two
C25_Witness ==
  /\ pc = "drain"
  /\ queue = <<>>
  /\ LET u == RngOutput(RngAdvance(rng))
         start == RngScale(u, cells)
         r == findMinEntropyCell(domain, cells, u)
     IN  /\ r # -1
         /\ r # start
         /\ countDomain(domain[start]) = 3
         /\ countDomain(domain[r]) = 2

\* C23: a stepper constructed with a non-positive grid dimension or an empty
\* catalog is not usable: it never emits a collapse or a done event.
C23_DegenerateNeverEmits ==
  (gridW <= 0 \/ gridH <= 0 \/ Len(tiles) = 0) =>
    ~Emitted("collapse") /\ ~Emitted("done")

(***************************************************************************)
(* The choice of a variant.                                                 *)
(***************************************************************************)
\* the least 32-bit value u with u / 2^32 >= k / m, for 0 <= k < m
DrawFloor(k, m) ==
  LET hi == (k * Half) \div m
      r1 == (k * Half) % m
      lo == (r1 * Half) \div m
      r2 == (r1 * Half) % m
  IN  IF r2 > 0 THEN Add32(<<hi, lo>>, <<0, 1>>) ELSE <<hi, lo>>

\* the greatest 32-bit value u with u / 2^32 < (k + 1) / m
DrawCeil(k, m) ==
  IF k + 1 = m THEN <<Half - 1, Half - 1>>
  ELSE LET f == DrawFloor(k + 1, m)
       IN  IF f[2] > 0 THEN <<f[1], f[2] - 1>> ELSE <<f[1] - 1, Half - 1>>

\* the variants of a cell in ascending order
RECURSIVE Ascending(_)
Ascending(S) ==
  IF S = {} THEN <<>>
  ELSE LET lo == CHOOSE x \in S : \A y \in S : x <= y
       IN  <<lo>> \o Ascending(S \ {lo})

\* the sum of the scores of the variants of a cell
RECURSIVE SumScores(_, _, _)
SumScores(dom, cell, S) ==
  IF S = {} THEN 0
  ELSE LET x == CHOOSE y \in S : TRUE
       IN  Score(dom, cell, x) + SumScores(dom, cell, S \ {x})

\* C26 (the transition of a collapse): the variant chosen is one of the cell's
\* domain; when some variant of the domain has a positive score the variant
\* chosen has a positive weight; the collapse has drawn twice, once for the
\* cell and once for the variant, whichever way the variant was chosen.
C26_Step ==
  IsCollapse =>
    LET ev == events'[Len(events')]
    IN  /\ ev.type = "collapse"
        /\ ev.tile \in domain[ev.cell]
        /\ SumScores(domain, ev.cell, domain[ev.cell]) > 0 => tiles[ev.tile + 1].weight > 0
        /\ rng' = RngAdvance(RngAdvance(rng))

\* C26 (the draw when no variant has a positive score): the k-th variant of
\* the domain in ascending order is chosen for the draws from k/m up to,
\* and not including, (k+1)/m: every variant of the domain has the same share.
C26_UniformShare ==
  \A c \in Cells :
    (domain[c] # {} /\ SumScores(domain, c, domain[c]) = 0) =>
      LET m == Cardinality(domain[c])
          options == Ascending(domain[c])
      IN  \A k \in 0 .. (m - 1) :
            /\ pickTileWithNeighborBias(domain, c, DrawFloor(k, m)) = options[k + 1]
            /\ pickTileWithNeighborBias(domain, c, DrawCeil(k, m)) = options[k + 1]

\* C26: pickTileWithNeighborBias returns a member of the domain, never a
\* variant of non-positive weight while a variant of the domain has a positive
\* score, draws uniformly over the domain when the total score is zero, and
\* draws from the PRNG exactly once in either case.
C26_PickProperties ==
  /\ [][C26_Step]_vars
  /\ []C26_UniformShare

\* C26 witness: with all weights 0 two collapses have chosen different
\* variants, the second next to a collapsed neighbour
C26_Witness ==
  /\ tiles = CatZero
  /\ \E i, j \in DOMAIN events :
       /\ i < j
       /\ events[i].type = "collapse"
       /\ events[j].type = "collapse"
       /\ events[i].tile # events[j].tile

(***************************************************************************)
(* One live run loop.                                                       *)
(***************************************************************************)
\* the runLoop invocations that would call step again: the one inside its
\* step call and the suspended ones, when their generation is the current one
LiveLoops ==
  (IF wpc = "loop" /\ curGen = runGen THEN 1 ELSE 0)
    + Cardinality({g \in loops : g = runGen})

\* C30 (steps): a suspended loop whose generation is not the current one
\* leaves without another step call; while a step call is under way no
\* handler and no other loop runs; a loop that suspends was not suspended
\* already under the same generation.
C30_Step ==
  /\ \A g \in loops :
       (g # runGen /\ LoopResume(g)) =>
         (pc' = "idle" /\ wpc' = "idle" /\ g \notin loops' /\ UNCHANGED fieldVars)
  /\ pc = "drain" => UNCHANGED <<wpc, curGen, runGen, loops, running>>
  /\ LoopChunkEnd => curGen \notin loops

\* C30: at most one run loop is live: at most one runLoop invocation has the
\* current generation, the loop inside a step call is that one, and the step
\* calls of two loops never interleave.
C30_OneLiveLoop ==
  /\ [][C30_Step]_vars
  /\ [](LiveLoops <= 1)
  /\ [](wpc = "loop" => (curGen = runGen /\ curGen \notin loops))

\* C30 witness: a new loop is inside its step call while the loop it
\* superseded is still suspended
C30_Witness ==
  /\ wpc = "loop"
  /\ pc = "drain"
  /\ curGen = runGen
  /\ \E g \in loops : g < runGen

(***************************************************************************)
(* Macro seeding and the expansion of the catalog.                          *)
(***************************************************************************)
\* the stepper has just been constructed or has just reset its domains
JustSeeded ==
  \/ hist.calls = 0
  \/ (events # <<>> /\ events[Len(events)].type = "restart")

TimesQueued(c) == Cardinality({i \in DOMAIN queue : queue[i] = c})

\* C27: seeding never empties a domain: intersectCellWithMask leaves the cell
\* as it is and returns false when the intersection would be empty, and
\* narrows the cell otherwise; right after construction and after every reset
\* every cell holds a variant and the queue holds the cells whose domain
\* seeding changed, each once, and no other cell.
C27_SeedingKeepsDomains ==
  /\ \A c \in Cells : \A mask \in SUBSET AllVariants :
       LET res == intersectCellWithMask(domain, c, mask)
       IN  /\ domain[c] # {} => res.domain[c] # {}
           /\ domain[c] \cap mask = {} => (res.domain = domain /\ ~res.changed)
           /\ domain[c] \cap mask # {} =>
                /\ res.domain = [domain EXCEPT ![c] = domain[c] \cap mask]
                /\ res.changed <=> res.domain # domain
  /\ JustSeeded =>
       \A c \in Cells :
         /\ countDomain(domain[c]) >= 1
         /\ TimesQueued(c) = (IF domain[c] # AllVariants THEN 1 ELSE 0)
         /\ inQueue[c] = TimesQueued(c)

\* C27 witness: a reset has seeded again: cells narrowed to the core mask are
\* queued, a cell no continent has changed is not
C27_Witness ==
  /\ macro.enabled
  /\ hist.restarts >= 1
  /\ events[Len(events)].type = "restart"
  /\ \E c \in Cells : domain[c] = {0} /\ TimesQueued(c) = 1
  /\ \E c \in Cells : domain[c] = AllVariants /\ TimesQueued(c) = 0

\* the same run with another macro setting: the constructor, then the calls
\* budgets[1..k]
RECURSIVE MacroRun(_, _, _)
MacroRun(budgets, k, mac) ==
  IF k = 0 THEN [s |-> stepperNew(mac), events |-> <<>>]
  ELSE stepperStep(MacroRun(budgets, k - 1, mac).s, budgets[k][1], budgets[k][2], mac)

\* seeding has changed nothing and the run is the run without macro seeding
SameAsUnseeded ==
  LET off == MacroRun(hist.budgets, Len(hist.budgets), NoMacro)
  IN  /\ JustSeeded => (\A c \in Cells : domain[c] = AllVariants) /\ queue = <<>>
      /\ events = off.events
      /\ MacroFields = off.s

\* C28: with macro seeding enabled and coreMinG = 0, seeding changes no
\* cell's domain and the run (events of every call, domains, result) is the
\* one of the same stepper with macro seeding disabled.
C28_CoreZeroIsUnseeded ==
  (macro.enabled /\ macro.coreMinG = 0) => SameAsUnseeded

\* C28 as amended: with macro seeding enabled and no variant whose baseId has
\* rimMinG G's or more (the rim mask is empty), seeding draws nothing, changes
\* no cell's domain, and the run is the one of the same stepper with macro
\* seeding disabled, whatever coreMinG is.
C28_EmptyRimIsUnseeded ==
  (macro.enabled /\ buildMaskForMinG(tiles, macro.rimMinG) = {}) => SameAsUnseeded

\* C28 witness: with an empty rim mask and coreMinG = 0 the run has
\* collapsed, met a contradiction and reset its domains
C28_Witness ==
  /\ macro.enabled
  /\ macro.coreMinG = 0
  /\ buildMaskForMinG(tiles, macro.rimMinG) = {}
  /\ hist.restarts >= 1
  /\ events[Len(events)].type = "restart"
  /\ \A c \in Cells : domain[c] = AllVariants

FourEqualEdges(t) == t.edges.n = t.edges.e /\ t.edges.e = t.edges.s /\ t.edges.s = t.edges.w

\* (n, e, s, w) becomes (w, n, e, s), and four turns give the edges back
TurnLaws ==
  \A i \in DOMAIN opts.baseTiles :
    LET e == opts.baseTiles[i].edges
    IN  /\ rotateEdges90CW(e) = [n |-> e.w, e |-> e.n, s |-> e.e, w |-> e.s]
        /\ rotateEdges90CW(rotateEdges90CW(rotateEdges90CW(rotateEdges90CW(e)))) = e

\* C29: rotateEdges90CW maps (n, e, s, w) to (w, n, e, s) and its fourth
\* power is the identity; for a catalog whose tiles have four equal edges,
\* buildVariants with allowRotate gives the variants it gives without: one
\* per tile, rotation 0, in the same order.
C29_RotationChangesNothing ==
  /\ TurnLaws
  /\ (opts.allowRotate /\ \A i \in DOMAIN opts.baseTiles : FourEqualEdges(opts.baseTiles[i]))
       => tiles = buildVariants(opts.baseTiles, FALSE)

\* the turn of the claim, r times
RECURSIVE Turned(_, _)
Turned(e, r) ==
  IF r = 0 THEN e
  ELSE LET p == Turned(e, r - 1) IN [n |-> p.w, e |-> p.n, s |-> p.e, w |-> p.s]

\* C29 as amended: the turn laws hold; every variant built with allowRotate
\* carries the edges of a base tile turned rot times; for a catalog whose
\* tiles have four equal edges and no two tiles share file and edges,
\* buildVariants with allowRotate gives one variant per tile, in the same
\* order, with rotation 0 and the tile's baseId, file, edges and weight, its
\* id being the tile's id followed by "__r0".
C29_RotationKeepsSquares ==
  /\ TurnLaws
  /\ opts.allowRotate =>
       \A j \in DOMAIN tiles : \E i \in DOMAIN opts.baseTiles :
         /\ tiles[j].file = opts.baseTiles[i].file
         /\ tiles[j].id = opts.baseTiles[i].id \o RotSuffix[tiles[j].rot + 1]
         /\ tiles[j].edges = Turned(opts.baseTiles[i].edges, tiles[j].rot)
  /\ (/\ opts.allowRotate
      /\ \A i \in DOMAIN opts.baseTiles : FourEqualEdges(opts.baseTiles[i])
      /\ \A i, j \in DOMAIN opts.baseTiles :
           (i # j) => variantKey(opts.baseTiles[i], opts.baseTiles[i].edges)
                        # variantKey(opts.baseTiles[j], opts.baseTiles[j].edges))
       => /\ Len(tiles) = Len(opts.baseTiles)
          /\ \A i \in DOMAIN tiles :
               tiles[i] = [buildVariants(opts.baseTiles, FALSE)[i]
                             EXCEPT !.id = opts.baseTiles[i].id \o "__r0"]

\* C29 witness: a catalog of two tiles with four equal edges, expanded with
\* allowRotate, has been stepped
C29_Witness ==
  /\ opts.allowRotate
  /\ opts.baseTiles = SquareTiles
  /\ Len(tiles) = 2
  /\ tiles[2].id = "rock__r0"
  /\ hist.calls >= 1

(***************************************************************************)
(* The drain loop, the versions and the shape of one call's event list.     *)
(***************************************************************************)
InQueueCells == {queue[i] : i \in DOMAIN queue}

\* C33: in a session without error event, whenever a step call has returned
\* the queue is empty, inQueue is zero everywhere and propVer[c] = domVer[c]
\* for every cell.
C33_QuietAtReturn ==
  (pc = "idle" /\ hist.calls >= 1 /\ hist.errors = 0) =>
    /\ queue = <<>>
    /\ \A c \in Cells : inQueue[c] = 0
    /\ \A c \in Cells : propVer[c] = domVer[c]

\* C33 witness: a call has returned without restart or done, leaving a cell
\* that was changed and propagated more than once
C33_Witness ==
  /\ pc = "idle"
  /\ hist.calls >= 1
  /\ hist.errors = 0
  /\ ~Emitted("restart")
  /\ ~Emitted("done")
  /\ \E c \in Cells : domVer[c] >= 2 /\ propVer[c] = domVer[c]

\* the masks the drain built from the domain of c admit all of domain[nb]
PropagatedFrom(c) ==
  \A d \in DIRS :
    Neighbor(c, d) >= 0 =>
      domain[Neighbor(c, d)] \subseteq UNION {compat[d][t] : t \in domain[c]}

\* C34: in a session without error event, after a drain that has returned
\* successfully (the queue is empty), every cell whose domain has changed
\* since the last reset (domVer[c] > 0) has been propagated with its current
\* domain: each on-grid neighbour's domain lies in the union of compat[d][t]
\* over the variants t left in the cell.
C34_ChangedCellsPropagated ==
  (hist.errors = 0 /\ queue = <<>>) =>
    \A c \in Cells : domVer[c] > 0 => PropagatedFrom(c)

\* C34 witness: a drain has ended after a collapse whose propagation removed
\* variants from a neighbour and left it with more than one
C34_Witness ==
  /\ pc = "drain"
  /\ queue = <<>>
  /\ hist.errors = 0
  /\ collapsed >= 1
  /\ \E c \in Cells : /\ domVer[c] > 0
                      /\ countDomain(domain[c]) > 1
                      /\ countDomain(domain[c]) < Len(tiles)

\* C35: every cell waiting in the queue has propVer[c] # domVer[c]: a pop
\* never meets equal versions, so every pop rebuilds the allowed masks.
C35_QueuedCellsAreStale ==
  \A c \in InQueueCells : propVer[c] # domVer[c]

\* C35 witness: a cell that was propagated before waits in the queue again,
\* its domain changed since
C35_Witness ==
  /\ pc = "drain"
  /\ \E c \in InQueueCells : propVer[c] >= 1 /\ domVer[c] > propVer[c]

CountEvents(types) ==
  Cardinality({i \in DOMAIN events : events[i].type \in types})

\* C36: the event list of one step(maxCollapses) call holds at most
\* maxCollapses collapse events and at most one event among restart, done and
\* error; that event comes after every collapse event and only the closing
\* diag follows it.
C36_EventListShape ==
  /\ CountEvents({"collapse"}) <= budget
  /\ CountEvents({"restart", "done", "error"}) <= 1
  /\ \A i \in DOMAIN events :
       events[i].type \in {"restart", "done", "error"} =>
         /\ \A j \in DOMAIN events : events[j].type = "collapse" => j < i
         /\ i = Len(events) - 1
         /\ events[Len(events)].type = "diag"

\* C36 witness: a call has returned two collapse events, a restart event and
\* the closing diag
C36_Witness ==
  /\ pc = "idle"
  /\ Len(events) = 4
  /\ events[1].type = "collapse"
  /\ events[2].type = "collapse"
  /\ events[3].type = "restart"
  /\ events[4].type = "diag"

\* C39: the collapse of cell c to tile t changes cell c alone before its drain
\* starts: domain[c] = {t}, domVer[c] and collapsed go up by one and c is
\* enqueued; the domains and versions of the other cells and propVer stay.
C39_Step ==
  (/\ Len(events') = Len(events) + 1
   /\ events'[Len(events')].type = "collapse") =>
    LET c == events'[Len(events')].cell
        t == events'[Len(events')].tile
    IN  /\ domain'[c] = {t}
        /\ domVer'[c] = domVer[c] + 1
        /\ collapsed' = collapsed + 1
        /\ inQueue'[c] = 1
        /\ queue' = Append(queue, c)
        /\ propVer' = propVer
        /\ \A o \in Cells \ {c} :
             /\ domain'[o] = domain[o]
             /\ domVer'[o] = domVer[o]
             /\ inQueue'[o] = inQueue[o]
C39_CollapseFrame == [][C39_Step]_vars

\* C39 witness: a cell that propagation had shrunk before has just been
\* collapsed and waits alone in the queue
C39_Witness ==
  /\ pc = "drain"
  /\ Len(events) >= 1
  /\ events[Len(events)].type = "collapse"
  /\ queue = <<events[Len(events)].cell>>
  /\ domVer[events[Len(events)].cell] >= 2
  /\ propVer[events[Len(events)].cell] = domVer[events[Len(events)].cell] - 1

\* C37: when done is emitted, every cell has been the subject of a collapse
\* event since the last restart (collapsed = cells), the cells that
\* propagation alone reduced to one variant included.  Stated for sessions
\* without error event and catalogs of two variants or more.
C37_DoneMeansAllCollapsed ==
  (Emitted("done") /\ hist.errors = 0 /\ Len(tiles) >= 2) => collapsed = cells

\* the cells that still hold more than one variant
OpenCells == {c \in Cells : countDomain(domain[c]) > 1}

\* an upper bound of the calls that return neither done nor error: each one
\* restarts or collapses an open cell of its attempt
CallBound == (maxRestarts + 1) * cells + maxRestarts

\* C32: under repeated step(n), n >= 1, the session reaches done or error:
\* a call that returns no done, error or restart event has collapsed at least
\* one cell, every collapse takes a cell of popcount above 1 and leaves fewer
\* such cells, a drain never adds one, and the restarts number at most
\* maxRestarts; so a session without error has returned done after at most
\* (maxRestarts + 1) * cells + maxRestarts other calls.
C32_ReturnedCallProgress ==
  /\ hist.restarts <= maxRestarts
  /\ (pc = "idle" /\ hist.calls >= 1 /\ hist.errors = 0
        /\ CountEvents({"restart", "done", "error"}) = 0) =>
       CountEvents({"collapse"}) >= 1
  /\ (pc = "idle" /\ hist.errors = 0 /\ ~hist.done) => hist.calls <= CallBound
C32_Step ==
  /\ (Len(events') = Len(events) + 1 /\ events'[Len(events')].type = "collapse") =>
       /\ countDomain(domain[events'[Len(events')].cell]) > 1
       /\ Cardinality(OpenCells') < Cardinality(OpenCells)
  /\ (hist.errors = 0 /\ ~IsRestart) =>
       Cardinality(OpenCells') <= Cardinality(OpenCells)
C32_Terminates == []C32_ReturnedCallProgress /\ [][C32_Step]_vars

\* C32 witness: a session that restarted once has spent every call the bound
\* allows it and returns done from the last one
C32_Witness ==
  /\ pc = "idle"
  /\ hist.restarts = 1
  /\ hist.errors = 0
  /\ Emitted("done")
  /\ hist.calls = MaxCalls

(***************************************************************************)
(* The events of a session, whatever the budgets of its calls.              *)
(***************************************************************************)
IsVisible(ev) == ev.type \in {"collapse", "restart", "done", "error"}
IsTerminal(ev) == ev.type \in {"done", "error"}

\* a log up to its first done or error event, that event included
UpToTerminal(log) ==
  LET ends == {i \in DOMAIN log : IsTerminal(log[i])}
  IN  IF ends = {} THEN log
      ELSE SubSeq(log, 1, CHOOSE i \in ends : \A j \in ends : i <= j)

\* calls k .. Len(budgets) of a session from the instance t: the instance
\* they leave and the visible events of all of them, in order
RECURSIVE SplitLog(_, _, _, _)
SplitLog(t, budgets, k, acc) ==
  IF k > Len(budgets) THEN [t |-> t, log |-> acc]
  ELSE Bind(TwinStep(t, budgets[k]),
            LAMBDA u : SplitLog(u, budgets, k + 1,
                                acc \o SelectSeq(u.events, IsVisible)))

\* the visible events of step(1) after step(1), until need events are there,
\* a done or error event has come or fuel calls are made
RECURSIVE OnesLog(_, _, _, _)
OnesLog(t, fuel, need, acc) ==
  IF fuel = 0 \/ Len(acc) >= need \/ \E i \in DOMAIN acc : IsTerminal(acc[i])
  THEN acc
  ELSE Bind(TwinStep(t, 1),
            LAMBDA u : OnesLog(u, fuel - 1, need,
                               acc \o SelectSeq(u.events, IsVisible)))

\* C38: the sequence of collapse, restart, done and error events of a
\* session does not depend on how the work is split into calls: up to its
\* first done or error event, the sequence of the calls made so far (the
\* stepper is where these calls leave it) is the beginning of the sequence
\* that step(1) after step(1) yields from the same construction.
C38_SplitIndependent ==
  pc = "idle" =>
    \A r \in {SplitLog(TwinStart, hist.budgets, 1, <<>>)} :
      \A o \in {UpToTerminal(OnesLog(TwinStart, CallBound + 1,
                                     Len(UpToTerminal(r.log)), <<>>))} :
        /\ r.t.f.domain = domain
        /\ r.t.f.collapsed = collapsed
        /\ r.t.rng = rng
        /\ r.t.attempt = attempt
        /\ hist.calls >= 1 =>
             SelectSeq(r.t.events, IsVisible) = SelectSeq(events, IsVisible)
        /\ Len(o) >= Len(UpToTerminal(r.log))
        /\ SubSeq(o, 1, Len(UpToTerminal(r.log))) = UpToTerminal(r.log)

\* C38 witness: a session of calls with budget 2 has restarted and collapsed
\* two cells or more of its second attempt
C38_Witness ==
  /\ pc = "idle"
  /\ Len(hist.budgets) = MaxTraced
  /\ \A k \in DOMAIN hist.budgets : hist.budgets[k] = 2
  /\ hist.restarts >= 1
  /\ hist.errors = 0
  /\ collapsed >= 2

(***************************************************************************)
(* The state messages of the worker after a terminal event.                 *)
(***************************************************************************)
IsTerminalState(m) == m.type = "state" /\ m.mode \in {"done", "error"}
IsResumingState(m) == m.type = "state" /\ m.mode \in {"paused", "running"}

\* C31: once the worker has posted state{done} or state{error}, it posts no
\* state{paused} and no state{running} for that session until an init message
\* is processed, whether the terminal event came up in the run loop or in the
\* step handler: not later in the same handler, and not in a later one.
C31_NothingAfterTerminal ==
  \A i \in DOMAIN posted : \A j \in DOMAIN posted :
    (IsTerminalState(posted[i]) /\ i < j) => ~IsResumingState(posted[j])
C31_Step ==
  ((wlog.sessDone \/ wlog.sessErr) /\ ~OnInit /\ posted' # posted) =>
    \A j \in DOMAIN posted' : ~IsResumingState(posted'[j])
C31_TerminalModeSticks == []C31_NothingAfterTerminal /\ [][C31_Step]_vars

(***************************************************************************)
(* The tileset loaders: loadTilesetAsTileDefs of the page and loadTileset   *)
(* of the dev server.  A JSON value is a record tagged with its kind, a     *)
(* string is the sequence of its characters, and the numbers of a document  *)
(* are integers.                                                            *)
(***************************************************************************)
MaxDocTiles == 1

JUndef == [k |-> "undefined"]
JNull == [k |-> "null"]
JNum(n) == [k |-> "number", v |-> n]
JStr(str) == [k |-> "string", v |-> str]
JArr(items) == [k |-> "array", v |-> items]
JObj(fields) == [k |-> "object", v |-> fields]

\* !v is false
truthy(j) ==
  CASE j.k \in {"undefined", "null"} -> FALSE
    [] j.k = "number" -> j.v # 0
    [] j.k = "string" -> j.v # <<>>
    [] j.k \in {"array", "object"} -> TRUE

\* v.key of a value that is neither null nor undefined; none of the keys read
\* here is a property of a string, a number or an array
propOf(j, key) ==
  IF j.k = "object" /\ key \in DOMAIN j.v THEN j.v[key] ELSE JUndef

\* v?.key
optProp(j, key) == IF j.k \in {"undefined", "null"} THEN JUndef ELSE propOf(j, key)

\* Number(v) of undefined, null and numbers
Number(j) ==
  CASE j.k = "number" -> [finite |-> TRUE, n |-> j.v]
    [] j.k = "null" -> [finite |-> TRUE, n |-> 0]
    [] j.k = "undefined" -> [finite |-> FALSE, n |-> 0]

numOr(v, fallback) == IF Number(v).finite THEN Number(v).n ELSE fallback

normWeight(v, fallback) ==
  IF numOr(v, fallback) > 0 THEN numOr(v, fallback) ELSE fallback

\* String(v ?? "") of undefined, null, strings and one-digit numbers
stringOrEmpty(j) ==
  CASE j.k \in {"undefined", "null"} -> <<>>
    [] j.k = "string" -> j.v
    [] j.k = "number" /\ j.v \in 0 .. 9 -> <<ToString(j.v)>>

trim(str) ==
  LET ink == {i \in DOMAIN str : str[i] # " "}
  IN  IF ink = {} THEN <<>>
      ELSE SubSeq(str, CHOOSE i \in ink : \A j \in ink : i <= j,
                       CHOOSE i \in ink : \A j \in ink : i >= j)

toLowerCase(str) ==
  [i \in DOMAIN str |-> IF str[i] = "A" THEN "a" ELSE IF str[i] = "K" THEN "k"
                        ELSE str[i]]

normKey(v) == toLowerCase(trim(stringOrEmpty(v)))

\* the loop of normRules over the items i .. of an array
RECURSIVE normRulesFrom(_, _)
normRulesFrom(items, i) ==
  IF i > Len(items) THEN <<>>
  ELSE IF normKey(optProp(items[i], "key")) = <<>> THEN normRulesFrom(items, i + 1)
  ELSE <<[key |-> normKey(optProp(items[i], "key")),
          weight |-> normWeight(optProp(items[i], "weight"), 1)]>>
       \o normRulesFrom(items, i + 1)

normRules(v) == IF v.k # "array" THEN <<>> ELSE normRulesFrom(v.v, 1)

\* .replace(/\\/g, "/")
slashes(str) == [i \in DOMAIN str |-> IF str[i] = "\\" THEN "/" ELSE str[i]]

\* .split("/").pop()
lastSegment(str) ==
  LET cuts == {i \in DOMAIN str : str[i] = "/"}
  IN  IF cuts = {} THEN str
      ELSE SubSeq(str, (CHOOSE i \in cuts : \A j \in cuts : i >= j) + 1, Len(str))

\* .replace(/\.[^.]+$/, "")
stripExtension(str) ==
  LET dots == {i \in DOMAIN str : str[i] = "."}
      last == CHOOSE i \in dots : \A j \in dots : i >= j
  IN  IF dots = {} \/ last = Len(str) THEN str ELSE SubSeq(str, 1, last - 1)

Thrown(name, message) == [kind |-> "throw", error |-> name, message |-> message]

\* the callback of raw.tiles.map in ensureV2
ensureTile(t) ==
  LET id == trim(stringOrEmpty(propOf(t, "id")))
      file == slashes(stringOrEmpty(propOf(t, "file")))
  IN  [id |-> IF id = <<>> THEN stripExtension(lastSegment(file)) ELSE id,
       file |-> file,
       weight |-> normWeight(propOf(t, "weight"), 1),
       edges |-> [n |-> normRules(optProp(propOf(t, "edges"), "n")),
                  e |-> normRules(optProp(propOf(t, "edges"), "e")),
                  s |-> normRules(optProp(propOf(t, "edges"), "s")),
                  w |-> normRules(optProp(propOf(t, "edges"), "w"))]]

\* the test at the head of ensureV2
notTilesetV2(obj) ==
  \/ ~truthy(obj)
  \/ obj.k \notin {"object", "array"}
  \/ ~truthy(propOf(obj, "meta"))
  \/ propOf(propOf(obj, "meta"), "version") # JNum(2)
  \/ propOf(obj, "tiles").k # "array"

ensureV2(obj) ==
  IF notTilesetV2(obj)
  THEN Thrown("Error", "tileset.json is not TilesetV2 (meta.version !== 2)")
  ELSE IF \E i \in DOMAIN propOf(obj, "tiles").v :
            propOf(obj, "tiles").v[i].k \in {"undefined", "null"}
  THEN Thrown("TypeError", "Cannot read properties of null")
  ELSE [kind |-> "value",
        meta |-> [version |-> 2,
                  tileSize |-> numOr(propOf(propOf(obj, "meta"), "tileSize"), 16)],
        tiles |-> [i \in DOMAIN propOf(obj, "tiles").v |->
                     ensureTile(propOf(obj, "tiles").v[i])]]

\* res is the answer to fetch("/tileset.json")
loadTilesetAsTileDefs(res) ==
  IF ~res.present THEN Thrown("Error", "Failed to load /tileset.json (404)")
  ELSE IF ~res.parses THEN Thrown("SyntaxError", "Unexpected token")
  ELSE IF ensureV2(res.json).kind = "throw" THEN ensureV2(res.json)
  ELSE [kind |-> "value",
        tileSize |-> ensureV2(res.json).meta.tileSize,
        tileDefs |-> ensureV2(res.json).tiles]

\* the dev server: vite.config.ts
isRecord(j) == j.k \in {"object", "array"}

\* asString(v) ?? ""
asStringOrEmpty(j) == IF j.k = "string" THEN j.v ELSE <<>>

\* n.toFixed(4) leaves an integer as it is
normTileWeight(w) ==
  IF Number(w).finite /\ Number(w).n > 0 THEN Number(w).n ELSE 1

normRuleWeight(w) ==
  IF Number(w).finite /\ Number(w).n > 0 THEN Number(w).n ELSE 1

RECURSIVE normEdgeRulesFrom(_, _)
normEdgeRulesFrom(items, i) ==
  IF i > Len(items) THEN <<>>
  ELSE IF ~isRecord(items[i]) \/ trim(asStringOrEmpty(propOf(items[i], "key"))) = <<>>
  THEN normEdgeRulesFrom(items, i + 1)
  ELSE <<[key |-> trim(asStringOrEmpty(propOf(items[i], "key"))),
          weight |-> normRuleWeight(propOf(items[i], "weight"))]>>
       \o normEdgeRulesFrom(items, i + 1)

normEdgeRules(v) == IF v.k # "array" THEN <<>> ELSE normEdgeRulesFrom(v.v, 1)

normEdges(v) ==
  IF ~isRecord(v) THEN [n |-> <<>>, e |-> <<>>, s |-> <<>>, w |-> <<>>]
  ELSE [n |-> normEdgeRules(propOf(v, "n")), e |-> normEdgeRules(propOf(v, "e")),
        s |-> normEdgeRules(propOf(v, "s")), w |-> normEdgeRules(propOf(v, "w"))]

isTilesetV2Shape(v) ==
  /\ isRecord(v)
  /\ isRecord(propOf(v, "meta"))
  /\ propOf(propOf(v, "meta"), "version") = JNum(2)
  /\ propOf(v, "tiles").k = "array"

\* path.posix.basename of a path that does not end in a slash
RECURSIVE basename(_)
basename(str) ==
  IF str # <<>> /\ str[Len(str)] = "/" THEN basename(SubSeq(str, 1, Len(str) - 1))
  ELSE lastSegment(str)

Fresh == [meta |-> [version |-> 2, tileSize |-> 16], tiles |-> <<>>]

\* the loop of normalizeTilesetV2 over the entries i .. of tiles
RECURSIVE normalizeTilesFrom(_, _)
normalizeTilesFrom(items, i) ==
  IF i > Len(items) THEN <<>>
  ELSE LET file == trim(slashes(asStringOrEmpty(propOf(items[i], "file"))))
           id == trim(asStringOrEmpty(propOf(items[i], "id")))
       IN  IF ~isRecord(items[i]) \/ file = <<>> THEN normalizeTilesFrom(items, i + 1)
           ELSE <<[id |-> IF id = <<>> THEN stripExtension(basename(file)) ELSE id,
                   file |-> file,
                   weight |-> normTileWeight(propOf(items[i], "weight")),
                   edges |-> normEdges(propOf(items[i], "edges"))]>>
                \o normalizeTilesFrom(items, i + 1)

normalizeTilesetV2(raw) ==
  IF ~isTilesetV2Shape(raw) THEN Fresh
  ELSE [meta |-> [version |-> 2,
                  tileSize |-> IF propOf(propOf(raw, "meta"), "tileSize").k = "number"
                               THEN propOf(propOf(raw, "meta"), "tileSize").v
                               ELSE Fresh.meta.tileSize],
        tiles |-> normalizeTilesFrom(propOf(raw, "tiles").v, 1)]

\* file is tileset.json on the disk of the server; archived tells whether the
\* file was renamed to a backup
loadTileset(file) ==
  IF ~file.present THEN [kind |-> "value", tileset |-> Fresh, archived |-> FALSE]
  ELSE IF ~file.parses \/ ~isTilesetV2Shape(file.json)
  THEN [kind |-> "value", tileset |-> Fresh, archived |-> TRUE]
  ELSE [kind |-> "value", tileset |-> normalizeTilesetV2(file.json),
        archived |-> FALSE]

\* documents: every shape of meta and tiles the two tests tell apart, and
\* entries with and without id, weight and edge rules
DocRules ==
  {JUndef,
   JArr(<<JNull, JObj([key |-> JStr(<<" ", "K", " ">>), weight |-> JNum(0)]),
          JObj([key |-> JStr(<<" ">>)])>>)}
DocEntries ==
  {JNull}
    \cup {JObj([id |-> i, file |-> f, weight |-> w, edges |-> e]) :
            i \in {JUndef, JStr(<<" ", "A">>)},
            f \in {JStr(<<"t", "\\", "a", ".", "p">>), JUndef},
            w \in {JUndef, JNull, JNum(3)},
            e \in {JUndef} \cup {JObj([n |-> r, w |-> JStr(<<"k">>)]) : r \in DocRules}}
DocMetas ==
  {JUndef, JStr(<<"2">>), JObj([version |-> JNum(1)]),
   JObj([version |-> JStr(<<"2">>)]), JObj([version |-> JNum(2)]),
   JObj([version |-> JNum(2), tileSize |-> JNum(32)])}
DocTiles ==
  {JUndef, JStr(<<"a">>)}
    \cup {JArr(ts) : ts \in UNION {[1 .. m -> DocEntries] : m \in 0 .. MaxDocTiles}}
Docs ==
  {JNull, JNum(0), JArr(<<>>)}
    \cup {JObj([meta |-> m, tiles |-> t]) : m \in DocMetas, t \in DocTiles}
Responses ==
  {[present |-> FALSE, parses |-> FALSE, json |-> JUndef],
   [present |-> TRUE, parses |-> FALSE, json |-> JUndef]}
    \cup {[present |-> TRUE, parses |-> TRUE, json |-> d] : d \in Docs}

LoaderInit ==
  /\ fetched \in Responses
  /\ loaded = NotLoaded
  \* no stepper and no worker yet
  /\ tiles = <<>>
  /\ gridW = 0
  /\ gridH = 0
  /\ maxRestarts = 0
  /\ seed = 0
  /\ opts = NoOptions
  /\ domain = <<>>
  /\ queue = <<>>
  /\ inQueue = <<>>
  /\ domVer = <<>>
  /\ propVer = <<>>
  /\ collapsed = 0
  /\ attempt = 0
  /\ rng = U32(0)
  /\ pc = "idle"
  /\ budget = 0
  /\ iter = 0
  /\ events = <<>>
  /\ hist = NoHistory
  /\ built = FALSE
  /\ running = FALSE
  /\ runGen = 0
  /\ loops = {}
  /\ wpc = "idle"
  /\ curGen = 0
  /\ posted = <<>>
  /\ wlog = NoLog

\* the page calls loadTilesetAsTileDefs()
ClientLoad ==
  /\ loaded = NotLoaded
  /\ \E r \in {loadTilesetAsTileDefs(fetched)} :
       loaded' = [by |-> "client", result |-> r]
  /\ UNCHANGED <<tiles, gridW, gridH, maxRestarts, seed, opts, fetched,
                 stepperVars, workerVars>>

\* GET /api/tileset calls loadTileset() on the same file
ServerLoad ==
  /\ loaded = NotLoaded
  /\ \E r \in {loadTileset(fetched)} :
       loaded' = [by |-> "server", result |-> r]
  /\ UNCHANGED <<tiles, gridW, gridH, maxRestarts, seed, opts, fetched,
                 stepperVars, workerVars>>

LoaderNext == ClientLoad \/ ServerLoad

LoaderSpec == LoaderInit /\ [][LoaderNext]_vars

\* a document whose meta.version is not 2 or whose tiles is not an array
FormatError(doc) ==
  \/ optProp(optProp(doc, "meta"), "version") # JNum(2)
  \/ optProp(doc, "tiles").k # "array"

\* C40: the loader of the page never throws on a catalog-format error: given
\* a parsed JSON object whose meta.version is not 2 or whose tiles field is
\* not an array, it returns a value, and that value is the empty catalog.
C40_ClientLoaderNeverThrows ==
  (/\ loaded.by = "client"
   /\ fetched.present
   /\ fetched.parses
   /\ fetched.json.k = "object"
   /\ FormatError(fetched.json)) =>
    (loaded.result.kind = "value" /\ loaded.result.tileDefs = <<>>)

=============================================================================
